---------------------------- MODULE Spec2Model ----------------------------
(*
  NovaMail backend: the session / token manager and mail-server discovery.

  Three specifications share this module:

    SpecAuth      the running backend (backend/src/index.js): the login route,
                  the authenticate middleware, logout, session revocation and
                  the hourly session sweep, all on the PocketBase store.
                  Every `await` of a handler that touches the store is a
                  point where another request may run, so a handler is a
                  chain of steps held together by a program counter.
    SpecLegacy    the knex session service and user model (createSession,
                  validateSession, revokeSession, cleanupExpiredSessions,
                  updateUserPassword).
    SpecDiscover  discoverMailConfig with parseAutoconfig/parseAutodiscover.

  Time is counted in ticks; the seven-day lifetimes are SessionTTL/JwtTTL ticks.
*)
EXTENDS Integers, Sequences, FiniteSets, TLC

VARIABLES
  users,      \* the users collection: set of records
  sessions,   \* the sessions collection: set of rows
  issued,     \* every token ever signed by the server
  now,        \* wall clock
  req,        \* POST /auth/login requests: slot -> record with its position
  sweep,      \* cleanupExpiredSessions: position, captured time, listed rows
  revoked,    \* JTIs whose row was deleted by a revocation
  upd,        \* updateUserPassword: position and the user it works on
  dpc,        \* discoverMailConfig: index of the next candidate, 0 at rest
  contacted,  \* discoverMailConfig: the requests made and their responses
  dresult,    \* discoverMailConfig: the value returned
  sec,        \* one mailbox's transport security on its way from the
              \* discovery document to the IMAP connection
  boxes,      \* the IMAP server's mailbox list, in the order it lists them
  msgs,       \* the messages: mailbox each is in (or "expunged") and flags
  cache,      \* _folderCache of the ImapService instance in use
  batch,      \* a batch request: its items and how each one settled
  inbox,      \* the polled mailbox: UIDs of its messages and its UIDNEXT
  sync,       \* a GET /sync request: watermark, status, messages returned
  mail,       \* the messages of one folder: subject and date of each
  thread,     \* a getThread call: the message asked for and the thread returned
  fault,      \* a failed mail operation: the error thrown and the status answered
  clock,      \* Date.now() in milliseconds
  requests,   \* the requests Map of the rate limiter: client -> window start and count
  answer,     \* what the rate limiter answered to the latest request
  admin,      \* the latest /api/folders request: its path, status and whether IMAP was called
  codec,      \* one password on its way through encryptPassword and decryptPassword
  calls,      \* the ImapService calls in flight: position and ImapFlow client
  conns,      \* the connections open at the mail server
  made,       \* how many connections were opened so far
  store       \* the web client: syncStatus.uidNext and how often each UID was prepended

authVars == <<users, sessions, issued, now, req, sweep, revoked, upd>>
discVars == <<dpc, contacted, dresult>>
secVars == <<sec>>
mailVars == <<boxes, msgs, cache, batch>>
syncVars == <<inbox, sync>>
threadVars == <<mail, thread>>
faultVars == <<fault>>
rateVars == <<clock, requests, answer>>
adminVars == <<admin>>
codecVars == <<codec>>
connVars == <<calls, conns, made>>
pollVars == <<store>>
vars == <<users, sessions, issued, now, req, sweep, revoked, upd,
          dpc, contacted, dresult, sec, boxes, msgs, cache, batch,
          inbox, sync,
          mail, thread,
          fault,
          clock, requests, answer,
          admin,
          codec,
          calls, conns, made,
          store>>

\* what the actions of one component leave alone
authOthers == <<discVars, secVars, mailVars, syncVars, threadVars, faultVars, rateVars, adminVars, codecVars, connVars, pollVars>>
discOthers == <<authVars, secVars, mailVars, syncVars, threadVars, faultVars, rateVars, adminVars, codecVars, connVars, pollVars>>
secOthers == <<authVars, discVars, mailVars, syncVars, threadVars, faultVars, rateVars, adminVars, codecVars, connVars, pollVars>>
mailOthers == <<authVars, discVars, secVars, syncVars, threadVars, faultVars, rateVars, adminVars, codecVars, connVars, pollVars>>
syncOthers == <<authVars, discVars, secVars, mailVars, threadVars, faultVars, rateVars, adminVars, codecVars, connVars, pollVars>>
threadOthers == <<authVars, discVars, secVars, mailVars, syncVars, faultVars, rateVars, adminVars, codecVars, connVars, pollVars>>
faultOthers == <<authVars, discVars, secVars, mailVars, syncVars, threadVars, rateVars, adminVars, codecVars, connVars, pollVars>>
rateOthers == <<authVars, discVars, secVars, mailVars, syncVars, threadVars, faultVars, adminVars, codecVars, connVars, pollVars>>
adminOthers == <<authVars, discVars, secVars, mailVars, syncVars, threadVars, faultVars, rateVars, codecVars, connVars, pollVars>>
folderAdminOthers == <<msgs, cache, batch, authVars, discVars, secVars, syncVars, threadVars, faultVars, rateVars, codecVars, connVars, pollVars>>
codecOthers == <<authVars, discVars, secVars, mailVars, syncVars, threadVars, faultVars, rateVars, adminVars, connVars, pollVars>>
connOthers == <<authVars, discVars, secVars, mailVars, syncVars, threadVars, faultVars, rateVars, adminVars, codecVars, pollVars>>
pollOthers == <<authVars, discVars, secVars, mailVars, syncVars, threadVars, faultVars, rateVars, adminVars, codecVars, connVars>>
pollSyncOthers == <<inbox, authVars, discVars, secVars, mailVars, threadVars, faultVars, rateVars, adminVars, codecVars, connVars>>

(* ------------------------------ bounds ------------------------------ *)

MaxLogins == 2
MaxTime == 2
MaxLegacyOps == 2
MaxBoxes == 3
MaxMsgs == 2
MaxItems == 2
MaxUid == 4
MaxMail == 3
MaxDate == 2
MaxClock == 3000
MaxOver == 2
MaxPlain == 2
MaxByte == 3
MaxCalls == 2
MaxConn == 3

(* ----------------------- program constants -------------------------- *)

\* expiresAt = Date.now() + 7 days; one tick is seven days
SessionTTL == 1
\* JWT_EXPIRES_IN = '7d'
JwtTTL == 1

\* RATE_LIMIT_WINDOW_MS and RATE_LIMIT_MAX_REQUESTS of the deployment modelled
\* (the defaults are 60000 and 100), and the step of the clock
WINDOW_MS == 2000
MAX_REQUESTS == 2
TickMs == 500

(* ------------------------------ inputs ------------------------------ *)

Emails == {"a@x", "A@x", "b@x"}
Passwords == {"p1", "p2"}

\* String.prototype.toLowerCase on the addresses above
toLowerCase(e) == IF e = "A@x" THEN "a@x" ELSE e

None == [id |-> 0, pv |-> 0]

(* --------------------------- credential codec ----------------------- *)

\* encryptPassword keeps the plaintext recoverable under the fixed key; the
\* nonce is abstracted (the stored blob is never compared by the code).
encryptPassword(p) == <<"enc", p>>
decryptPassword(c) == c[2]

(* ============================ SpecAuth ============================== *)

\* imapOk: the verdict of the IMAP test connection of this request
IdleReq == [pc |-> "idle", email |-> "", password |-> "", imapOk |-> TRUE,
            existing |-> None, user |-> None, status |-> 0]

\* a request that has been answered holds only its answer
Answered(status, ok) == [IdleReq EXCEPT !.pc = "done", !.status = status,
                                         !.imapOk = ok]

\* updateUserPassword at rest
IdleUpd == [pc |-> "idle", id |-> 0, pv |-> 0, pw |-> ""]

\* The store after construction is empty; the second start state is the
\* store after a first login of b@x at time 0 (user 1, session and token 1).
Registered == [id |-> 1, email |-> "b@x", pw |-> encryptPassword("p1"),
               pv |-> 1]
FirstSession == [jti |-> 1, uid |-> 1, pv |-> 1, exp |-> SessionTTL]
FirstToken == [jti |-> 1, sub |-> 1, exp |-> JwtTTL, sig |-> TRUE]

InitAuthVars ==
  /\ \/ users = {} /\ sessions = {} /\ issued = {}
     \/ users = {Registered} /\ sessions = {FirstSession}
        /\ issued = {FirstToken}
  /\ now = 0
  /\ req = [r \in 1..MaxLogins |-> IdleReq]
  /\ sweep = [pc |-> "idle", now |-> 0, listed |-> {}]
  /\ revoked = {}
  /\ upd = IdleUpd

\* discoverMailConfig has not returned
NoServer == [host |-> "", port |-> 0, secure |-> FALSE, starttls |-> FALSE]
NoResult == [found |-> FALSE, source |-> "none",
             config |-> [imap |-> NoServer, smtp |-> NoServer]]

\* no login under way
IdleSec == [pc |-> "idle", block |-> "", bodySecurity |-> "",
            bodyPort |-> 0, imap |-> "", stored |-> "", conn |-> ""]

InitSecVars == sec = IdleSec

\* the INBOX every account has
Inbox == [name |-> "INBOX", path |-> "INBOX", specialUse |-> ""]

\* no folder cache yet (this._folderCache = null)
NullCache == [built |-> FALSE, map |-> <<>>]

\* no batch request under way
IdleBatch == [pc |-> "idle", kind |-> "", items |-> <<>>, flag |-> FALSE,
              target |-> "", settled |-> <<>>, found |-> <<>>,
              applied |-> <<>>, status |-> 0, succeeded |-> 0, failed |-> 0]

\* an account with an INBOX holding every message, unread and unstarred
InitMailVars ==
  /\ boxes = <<Inbox>>
  /\ msgs = [m \in 1..MaxMsgs |->
              [loc |-> "INBOX", seen |-> FALSE, flagged |-> FALSE]]
  /\ cache = NullCache
  /\ batch = IdleBatch

\* no poll under way
IdleSync == [pc |-> "idle", knownUidNext |-> 0, uidNext |-> 0,
             hasNew |-> FALSE, newCount |-> 0, newEmails |-> {}]

\* an empty mailbox whose first message will get UID 1
InitSyncVars ==
  /\ inbox = [uids |-> {}, uidNext |-> 1]
  /\ sync = IdleSync

\* no thread request under way
IdleThread == [pc |-> "idle", uid |-> 0, subject |-> <<>>, thread |-> <<>>]

\* an empty folder
InitThreadVars ==
  /\ mail = <<>>
  /\ thread = IdleThread

\* no mail operation has failed
IdleFault == [pc |-> "idle", operation |-> "", err |-> <<>>, status |-> 0]

InitFaultVars == fault = IdleFault

\* no entry for a client in the requests Map
NoEntry == [windowStart |-> 0, count |-> 0]

\* no request answered yet
NoAnswer == [client |-> "", at |-> 0, status |-> 0, retryAfter |-> 0,
             before |-> NoEntry, after |-> NoEntry]

\* the rate limiter after the module is loaded: an empty Map
InitRateVars ==
  /\ clock = 0
  /\ requests = [c \in {"ip1", "ip2"} |-> NoEntry]
  /\ answer = NoAnswer

\* no folder request answered yet
NoFolderAnswer == [route |-> "", path |-> "", status |-> 0, called |-> FALSE]

InitAdminVars == admin = NoFolderAnswer

\* the credential codec at rest
IdleCodec == [pc |-> "idle", plaintext |-> <<>>, blob |-> <<>>,
              module |-> "", ok |-> FALSE, decrypted |-> <<>>]

InitCodecVars == codec = IdleCodec

\* no ImapService call in flight, no connection open
IdleCall == [pc |-> "idle", client |-> 0, threw |-> FALSE]

InitConnVars ==
  /\ calls = [o \in 1..MaxCalls |-> IdleCall]
  /\ conns = {}
  /\ made = 0

\* the mail store of the web client before its first poll: syncStatus null
\* (uidNext 0), no message reported
InitPollVars ==
  store = [uidNext |-> 0, first |-> 0, emails |-> [u \in 1..MaxUid |-> 0]]

\* the components outside the session manager and discovery, at rest
InitIdle == InitSecVars /\ InitMailVars /\ InitSyncVars /\ InitThreadVars /\ InitFaultVars /\ InitRateVars /\ InitAdminVars /\ InitCodecVars /\ InitConnVars /\ InitPollVars

InitDiscVars ==
  /\ dpc = 0
  /\ contacted = <<>>
  /\ dresult = NoResult

\* Date.now() advancing
Tick ==
  /\ now < MaxTime
  /\ now' = now + 1
  /\ UNCHANGED <<users, sessions, issued, req, sweep, revoked, upd>>
  /\ UNCHANGED authOthers

(* ---- POST /auth/login ---- *)

\* upsertUser, first await: getFirstListItem(email = <address>); the records
\* it can return (none on a 404)
FindByEmail(U, e) == {u \in U : u.email = e}

\* the address upsertUser looks up and stores: email.toLowerCase()
UpsertEmail(e) == toLowerCase(e)

\* A login route that stores the user before it has the mail server's
\* verdict: a failed test connection still leaves a record behind.
LoginStoresBeforeTest(r, e, p, ok) ==
  /\ req[r].pc = "idle"
  /\ \A q \in 1..(r - 1) : req[q].pc # "idle"
  /\ IF ~ok
       THEN /\ req' = [req EXCEPT ![r] = Answered(401, FALSE)]
            /\ users' = IF FindByEmail(users, UpsertEmail(e)) = {}
                          THEN users \cup
                                 {[id |-> Cardinality(users) + 1,
                                   email |-> UpsertEmail(e),
                                   pw |-> encryptPassword(p), pv |-> 1]}
                          ELSE {IF u.email = UpsertEmail(e)
                                  THEN [u EXCEPT !.pw = encryptPassword(p)]
                                  ELSE u : u \in users}
       ELSE /\ users' = users
            /\ IF FindByEmail(users, UpsertEmail(e)) = {}
                 THEN req' = [req EXCEPT ![r] =
                                [@ EXCEPT !.pc = "write",
                                          !.email = UpsertEmail(e),
                                          !.password = p]]
                 ELSE \E u \in FindByEmail(users, UpsertEmail(e)) :
                        req' = [req EXCEPT ![r] =
                                  [@ EXCEPT !.pc = "write",
                                            !.email = UpsertEmail(e),
                                            !.password = p,
                                            !.existing =
                                              [id |-> u.id, pv |-> u.pv]]]
  /\ UNCHANGED <<sessions, issued, now, sweep, revoked, upd>>
  /\ UNCHANGED authOthers

\* The route up to the first read of the store. imapService.testConnection():
\* the mail server's verdict `ok` is an input; on failure the route answers
\* 401 and returns. On success (the SMTP check cannot fail the login) it
\* calls upsertUser, whose lookup result is kept in `existing`.
LoginTest(r, e, p, ok) ==
  /\ req[r].pc = "idle"
  /\ \A q \in 1..(r - 1) : req[q].pc # "idle"
  /\ IF ~ok
       THEN req' = [req EXCEPT ![r] = Answered(401, FALSE)]
       ELSE IF FindByEmail(users, UpsertEmail(e)) = {}
         THEN req' = [req EXCEPT ![r] =
                        [@ EXCEPT !.pc = "write", !.email = UpsertEmail(e),
                                  !.password = p]]
         ELSE \E u \in FindByEmail(users, UpsertEmail(e)) :
                req' = [req EXCEPT ![r] =
                          [@ EXCEPT !.pc = "write", !.email = UpsertEmail(e),
                                    !.password = p,
                                    !.existing = [id |-> u.id, pv |-> u.pv]]]
  /\ UNCHANGED <<users, sessions, issued, now, sweep, revoked, upd>>
  /\ UNCHANGED authOthers

\* password_version written by the update branch of upsertUser
UpdatedPasswordVersion(existing, p) == existing.pv + 1

\* upsertUser, second await: update(existing.id, ...) or create(...).
\* The record returned (formatUser) is what createSession is given.
UpsertUserWrite(r) ==
  /\ req[r].pc = "write"
  /\ LET ex == req[r].existing
         p  == req[r].password IN
     IF ex # None
       THEN LET updated(u) == [u EXCEPT !.pw = encryptPassword(p),
                                          !.pv = UpdatedPasswordVersion(ex, p)]
            IN
            /\ users' = {IF u.id = ex.id THEN updated(u) ELSE u : u \in users}
            /\ req' = [req EXCEPT ![r].pc = "session",
                         ![r].user = [id |-> ex.id,
                                      pv |-> UpdatedPasswordVersion(ex, p)]]
       ELSE LET created == [id |-> Cardinality(users) + 1,
                            email |-> req[r].email,
                            pw |-> encryptPassword(p),
                            pv |-> 1] IN
            /\ users' = users \cup {created}
            /\ req' = [req EXCEPT ![r].pc = "session",
                         ![r].user = [id |-> created.id, pv |-> created.pv]]
  /\ UNCHANGED <<sessions, issued, now, sweep, revoked, upd>>
  /\ UNCHANGED authOthers

\* crypto.randomUUID(): a value never handed out before
NewJti == Cardinality(issued) + 1

\* jwt.sign + createSession(user, jti, token, expiresAt, metadata), then the
\* 200 response carrying the token.
CreateSession(r) ==
  /\ req[r].pc = "session"
  /\ LET jti == NewJti IN
     /\ issued' = issued \cup
          {[jti |-> jti, sub |-> req[r].user.id, exp |-> now + JwtTTL,
            sig |-> TRUE]}
     /\ sessions' = sessions \cup
          {[jti |-> jti, uid |-> req[r].user.id, pv |-> req[r].user.pv,
            exp |-> now + SessionTTL]}
     /\ req' = [req EXCEPT ![r] = Answered(200, TRUE)]
  /\ UNCHANGED <<users, now, sweep, revoked, upd>>
  /\ UNCHANGED authOthers

(* ---- authenticate middleware ---- *)

\* What a client can put in the Authorization header: a token the server
\* signed, or one whose signature does not verify.
Presentable == issued \cup {[t EXCEPT !.sig = FALSE] : t \in issued}

\* The tokens the modelled requests carry: the signed ones and one forgery
Forged == [jti |-> 1, sub |-> 1, exp |-> MaxTime + JwtTTL, sig |-> FALSE]
Carried == issued \cup {Forged}

\* An authenticate that trusts the signed token alone and never looks the
\* session up.
AuthReasonTokenOnly(t) ==
  IF ~t.sig THEN "Invalid Token"
  ELSE IF now >= t.exp THEN "Token Expired"
  ELSE "ok"

\* authenticate, in the order of its checks; "ok" means next() is called,
\* every other value is the `error` field of a 401 response.
AuthReason(t) ==
  IF ~t.sig THEN "Invalid Token"
  ELSE IF now >= t.exp THEN "Token Expired"
  ELSE LET found == {s \in sessions : s.jti = t.jti} IN
    IF found = {} THEN "Invalid Session"
    ELSE LET session == CHOOSE s \in found : TRUE IN
      IF now > session.exp THEN "Session Expired"
      ELSE LET owner == {u \in users : u.id = session.uid} IN
        IF owner = {} THEN "User Not Found"
        ELSE LET user == CHOOSE u \in owner : TRUE IN
          IF session.pv # user.pv THEN "Password Changed"
          ELSE "ok"

(* ---- logout and session revocation ---- *)

\* A revocation that removes every session of the owner of the JTI's row.
RevokeOwnerSessions(S, jti) ==
  {s \in S : \A o \in S : o.jti = jti => s.uid # o.uid}

\* revokeSessionByJti: the sessions collection after the call (a 404 of the
\* lookup or of the delete is caught and changes nothing)
RevokeSessionByJti(S, jti) == {s \in S : s.jti # jti}

\* its return value: true when a row was found and deleted, false on 404
RevokeFound(S, jti) == \E s \in S : s.jti = jti

\* authenticate, then the route body revoking `target`; rejected by
\* authenticate, the route body does not run
Revoking(t, target) ==
  IF AuthReason(t) = "ok"
    THEN /\ sessions' = RevokeSessionByJti(sessions, target)
         /\ revoked' = IF RevokeFound(sessions, target)
                         THEN revoked \cup {target} ELSE revoked
    ELSE UNCHANGED <<sessions, revoked>>

\* the :jti path parameters tried
JtiInputs == 1..(MaxLogins + 1)

\* POST /auth/logout: revokes req.user.sessionJti
Logout(t) ==
  /\ Revoking(t, t.jti)
  /\ UNCHANGED <<users, issued, now, req, sweep, upd>>
  /\ UNCHANGED authOthers

\* DELETE /auth/sessions/:jti: revokes the JTI of the path
DeleteSession(t, jti) ==
  /\ Revoking(t, jti)
  /\ UNCHANGED <<users, issued, now, req, sweep, upd>>
  /\ UNCHANGED authOthers

(* ---- cleanupExpiredSessions (setInterval, hourly) ---- *)

\* filter expires_at < now
ExpiredAt(S, time) == {s \in S : s.exp < time}

\* first await: getFullList of the expired rows. With nothing listed the
\* loop has no iteration and the function returns {deleted: 0} at once.
CleanupList ==
  /\ sweep.pc = "idle"
  /\ sweep' = IF ExpiredAt(sessions, now) = {}
               THEN sweep
               ELSE [pc |-> "delete", now |-> now,
                     listed |-> {s.jti : s \in ExpiredAt(sessions, now)}]
  /\ UNCHANGED <<users, sessions, issued, now, req, revoked, upd>>
  /\ UNCHANGED authOthers

\* the value cleanupExpiredSessions returns in `deleted`: expired.length, or
\* 0 from the catch block when a delete threw because its row was gone
CleanupReturn(S, listed) ==
  IF \A j \in listed : \E s \in S : s.jti = j THEN Cardinality(listed) ELSE 0

\* the loop of delete(session.id) calls inside try/catch. A row that is gone
\* makes delete throw: the catch ends the loop; the rows deleted before it
\* (any of the listed ones, the listing's order being the store's) stay
\* deleted.
CleanupDelete ==
  /\ sweep.pc = "delete"
  /\ LET present == {s \in sessions : s.jti \in sweep.listed} IN
     IF \A j \in sweep.listed : \E s \in sessions : s.jti = j
       THEN sessions' = sessions \ present
       ELSE \E done \in SUBSET present : sessions' = sessions \ done
  /\ sweep' = [pc |-> "idle", now |-> 0, listed |-> {}]
  /\ UNCHANGED <<users, issued, now, req, revoked, upd>>
  /\ UNCHANGED authOthers

(* ---- the running backend ---- *)

InitAuth == InitAuthVars /\ InitDiscVars /\ InitIdle

NextAuth ==
  \/ Tick
  \/ \E r \in 1..MaxLogins, e \in Emails, p \in Passwords, ok \in BOOLEAN :
       LoginTest(r, e, p, ok)
  \/ \E r \in 1..MaxLogins : UpsertUserWrite(r)
  \/ \E r \in 1..MaxLogins : CreateSession(r)
  \/ \E t \in Carried : Logout(t)
  \/ \E t \in Carried, jti \in JtiInputs : DeleteSession(t, jti)
  \/ CleanupList
  \/ CleanupDelete

SpecAuth == InitAuth /\ [][NextAuth]_vars

(* =========================== SpecLegacy ============================= *)
(* The knex user model and session service. Tokens carry the password
   epoch they were signed under: [jti, sub, pv, exp, sig].              *)

\* createUser: insert with the lower-cased address and password_version 1
CreateUser(e, p) ==
  /\ Cardinality(users) < MaxLegacyOps
  /\ users' = users \cup {[id |-> Cardinality(users) + 1,
                           email |-> toLowerCase(e),
                           pw |-> encryptPassword(p), pv |-> 1]}
  /\ UNCHANGED <<sessions, issued, now, req, sweep, revoked, upd>>
  /\ UNCHANGED authOthers

\* getUserById(id): the record a caller reads before it asks for a session
GetUserById(r, id) ==
  /\ req[r].pc = "idle"
  /\ \A q \in 1..(r - 1) : req[q].pc # "idle"
  /\ \E u \in users :
       /\ u.id = id
       /\ req' = [req EXCEPT ![r] =
                    [@ EXCEPT !.pc = "session",
                              !.user = [id |-> u.id, pv |-> u.pv]]]
  /\ UNCHANGED <<users, sessions, issued, now, sweep, revoked, upd>>
  /\ UNCHANGED authOthers

\* createSession(user, metadata): uuidv4 JTI, token signed with the
\* passwordVersion of the `user` object it is given, row inserted with the
\* same JTI and password_version
LegacyCreateSession(r) ==
  /\ req[r].pc = "session"
  /\ Cardinality(issued) < MaxLegacyOps
  /\ LET jti == NewJti
         user == req[r].user IN
     /\ issued' = issued \cup
          {[jti |-> jti, sub |-> user.id, pv |-> user.pv,
            exp |-> now + JwtTTL, sig |-> TRUE]}
     /\ sessions' = sessions \cup
          {[jti |-> jti, uid |-> user.id, pv |-> user.pv,
            exp |-> now + SessionTTL]}
     /\ req' = [req EXCEPT ![r] = Answered(200, TRUE)]
  /\ UNCHANGED <<users, now, sweep, revoked, upd>>
  /\ UNCHANGED authOthers

\* the tokens a caller can hand to validateSession
LegacyPresentable == issued \cup {[t EXCEPT !.sig = FALSE] : t \in issued}

\* validateSession(token): `valid` and `reason` of its result
ValidateReason(t) ==
  IF ~t.sig THEN "Invalid token"
  ELSE IF now >= t.exp THEN "Token expired"
  ELSE LET found == {s \in sessions : s.jti = t.jti} IN
    IF found = {} THEN "Session not found"
    ELSE LET session == CHOOSE s \in found : TRUE IN
      IF session.exp < now THEN "Session expired"
      ELSE IF session.pv # t.pv THEN "Password changed"
      ELSE "valid"

\* validateSession(token): an expired row, or one whose epoch differs from
\* the token's, is deleted; otherwise only last_used_at is touched
ValidateSession(t) ==
  /\ sessions' = IF ValidateReason(t) \in {"Session expired",
                                            "Password changed"}
                   THEN {s \in sessions : s.jti # t.jti}
                   ELSE sessions
  /\ UNCHANGED <<users, issued, now, req, sweep, revoked, upd>>
  /\ UNCHANGED authOthers

\* updateUserPassword(userId, newPassword), first await: read the user
UpdateUserPasswordRead(id, p) ==
  /\ upd.pc = "idle"
  /\ \E u \in users :
       /\ u.id = id
       /\ u.pv < MaxLegacyOps
       /\ upd' = [pc |-> "update", id |-> id, pv |-> u.pv, pw |-> p]
  /\ UNCHANGED <<users, sessions, issued, now, req, sweep, revoked>>
  /\ UNCHANGED authOthers

\* second await: store the new password and password_version + 1
UpdateUserPasswordWrite ==
  /\ upd.pc = "update"
  /\ users' = {IF u.id = upd.id
                 THEN [u EXCEPT !.pw = encryptPassword(upd.pw),
                                !.pv = upd.pv + 1]
                 ELSE u : u \in users}
  /\ upd' = [upd EXCEPT !.pc = "delete"]
  /\ UNCHANGED <<sessions, issued, now, req, sweep, revoked>>
  /\ UNCHANGED authOthers

\* third await: delete every session of the user
UpdateUserPasswordDelete ==
  /\ upd.pc = "delete"
  /\ sessions' = {s \in sessions : s.uid # upd.id}
  /\ upd' = IdleUpd
  /\ UNCHANGED <<users, issued, now, req, sweep, revoked>>
  /\ UNCHANGED authOthers

\* revokeSession(jti): delete where {jti}
RevokeSession(jti) ==
  /\ sessions' = {s \in sessions : s.jti # jti}
  /\ UNCHANGED <<users, issued, now, req, sweep, revoked, upd>>
  /\ UNCHANGED authOthers

\* cleanupExpiredSessions: one delete where expires_at < now
LegacyCleanupExpiredSessions ==
  /\ sessions' = sessions \ ExpiredAt(sessions, now)
  /\ UNCHANGED <<users, issued, now, req, sweep, revoked, upd>>
  /\ UNCHANGED authOthers

InitLegacy ==
  /\ users = {} /\ sessions = {} /\ issued = {}
  /\ now = 0
  /\ req = [r \in 1..MaxLogins |-> IdleReq]
  /\ sweep = [pc |-> "idle", now |-> 0, listed |-> {}]
  /\ revoked = {}
  /\ upd = IdleUpd
  /\ InitDiscVars
  /\ InitIdle

NextLegacy ==
  \/ Tick
  \/ \E e \in Emails, p \in Passwords : CreateUser(e, p)
  \/ \E r \in 1..MaxLogins, u \in users : GetUserById(r, u.id)
  \/ \E r \in 1..MaxLogins : LegacyCreateSession(r)
  \/ \E t \in LegacyPresentable : ValidateSession(t)
  \/ \E u \in users, p \in Passwords : UpdateUserPasswordRead(u.id, p)
  \/ UpdateUserPasswordWrite
  \/ UpdateUserPasswordDelete
  \/ \E jti \in JtiInputs : RevokeSession(jti)
  \/ LegacyCleanupExpiredSessions

SpecLegacy == InitLegacy /\ [][NextLegacy]_vars

(* ========================== SpecDiscover ============================ *)
(* discoverMailConfig(email) for one address of domain "d". A response
   document is reduced to its IMAP and SMTP server blocks.               *)

\* autoconfigUrls then autodiscoverUrls, in the order of the two loops
Candidates ==
  << [strategy |-> "autoconfig", method |-> "GET",
      url |-> "autoconfig.d/mail/config-v1.1.xml"],
     [strategy |-> "autoconfig", method |-> "GET",
      url |-> "autodiscover.d/mail/config-v1.1.xml"],
     [strategy |-> "autoconfig", method |-> "GET",
      url |-> "d/.well-known/autoconfig/mail/config-v1.1.xml"],
     [strategy |-> "autodiscover", method |-> "POST",
      url |-> "autoconfig.d/autodiscover/autodiscover.xml"],
     [strategy |-> "autodiscover", method |-> "POST",
      url |-> "autodiscover.d/autodiscover/autodiscover.xml"],
     [strategy |-> "autodiscover", method |-> "POST",
      url |-> "d/autodiscover/autodiscover.xml"] >>

\* One server block of a response document (<incomingServer type="imap">,
\* <outgoingServer>, or a <Protocol> block): whether the block is there, and
\* the text of its host, port and socket elements ("<missing>": no element).
\* For autodiscover the socket element is <SSL>.
MissingBlock == [block |-> FALSE, hostname |-> "<missing>",
                 port |-> "<missing>", socketType |-> "<missing>"]

Block(h, p, t) == [block |-> TRUE, hostname |-> h, port |-> p,
                   socketType |-> t]

\* the blocks the candidates answer with
AutoconfigBlocks ==
  {MissingBlock, Block(" ", "993", "SSL"), Block("mx.d", "143", "STARTTLS")}
AutodiscoverBlocks ==
  {MissingBlock, Block(" ", "993", "on"), Block("mx.d", "<missing>", "off")}

\* what fetch can produce: a rejection (network error, abort after 5 s), a
\* response that is not 2xx, or a 2xx response with a document
Failures ==
  {[status |-> st, imap |-> MissingBlock, smtp |-> MissingBlock] :
     st \in {"error", "non2xx"}}
Responses(strategy) ==
  Failures \cup
  {[status |-> "ok", imap |-> i, smtp |-> m] :
     i \in (IF strategy = "autoconfig" THEN AutoconfigBlocks
            ELSE AutodiscoverBlocks),
     m \in (IF strategy = "autoconfig" THEN AutoconfigBlocks
            ELSE AutodiscoverBlocks)}

\* String.prototype.trim on the host texts
trim(x) == IF x = " " THEN "" ELSE x

\* parseInt on the port texts; 0 stands for NaN (both are falsy)
parseInt(x) ==
  CASE x = "143" -> 143 [] x = "993" -> 993 [] x = "587" -> 587
    [] x = "465" -> 465 [] x = "25" -> 25 [] OTHER -> 0

\* String.prototype.toUpperCase / toLowerCase on the socket texts
toUpperCaseSocket(x) ==
  CASE x = "ssl" -> "SSL" [] x = "starttls" -> "STARTTLS"
    [] x = "plain" -> "PLAIN" [] OTHER -> x
toLowerCaseSocket(x) ==
  CASE x = "ON" -> "on" [] x = "OFF" -> "off" [] OTHER -> x

\* parseAutoconfig: getTagContent gives null for a missing block or element
\* and the trimmed text otherwise; host is `content || ''`, port is
\* `parseInt(content) || default`, secure/starttls compare the upper-cased
\* socketType with 'SSL' / 'STARTTLS'
parseAutoconfig(doc) ==
  LET getTagContent(x) == IF x = "<missing>" THEN "" ELSE trim(x)
      server(b, defaultPort) ==
        [host |-> getTagContent(b.hostname),
         port |-> IF parseInt(getTagContent(b.port)) # 0
                    THEN parseInt(getTagContent(b.port)) ELSE defaultPort,
         secure |-> toUpperCaseSocket(getTagContent(b.socketType)) = "SSL",
         starttls |->
           toUpperCaseSocket(getTagContent(b.socketType)) = "STARTTLS"]
  IN [imap |-> server(doc.imap, 993), smtp |-> server(doc.smtp, 587)]

\* parseAutodiscover: getProtocol gives null without the block (replaced by
\* the defaults) and otherwise the trimmed <Server> text or '', the <Port>
\* or null (0 here), and secure = (<SSL> is "on"), true without <SSL>.
\* The result has no starttls field (undefined, read as false).
parseAutodiscover(doc) ==
  LET getProtocol(b, defaultPort, defaultSecure) ==
        IF ~b.block
          THEN [host |-> "", port |-> defaultPort, secure |-> defaultSecure,
                starttls |-> FALSE]
          ELSE [host |-> IF b.hostname = "<missing>" THEN ""
                         ELSE trim(b.hostname),
                port |-> parseInt(b.port),
                secure |-> IF b.socketType \in {"on", "off", "ON", "OFF"}
                             THEN toLowerCaseSocket(b.socketType) = "on"
                             ELSE TRUE,
                starttls |-> FALSE]
  IN [imap |-> getProtocol(doc.imap, 993, TRUE),
      smtp |-> getProtocol(doc.smtp, 587, FALSE)]

\* the config a candidate's 2xx response parses into
ParsedConfig(c, resp) ==
  IF c.strategy = "autoconfig" THEN parseAutoconfig(resp)
  ELSE parseAutodiscover(resp)

\* A test that asks both strategies for an IMAP and an SMTP host.
CandidateReturnsBothHosts(c, resp) ==
  /\ resp.status = "ok"
  /\ ParsedConfig(c, resp).imap.host # ""
  /\ ParsedConfig(c, resp).smtp.host # ""

\* the test that makes a loop return: response.ok and the host condition
\* (autoconfig: imap.host && smtp.host; autodiscover: imap.host || smtp.host)
CandidateReturns(c, resp) ==
  /\ resp.status = "ok"
  /\ LET config == ParsedConfig(c, resp) IN
     IF c.strategy = "autoconfig"
       THEN config.imap.host # "" /\ config.smtp.host # ""
       ELSE config.imap.host # "" \/ config.smtp.host # ""

\* A fallback that guesses the submission port for SMTP.
FallbackSubmissionPort ==
  [found |-> FALSE, source |-> "fallback",
   config |-> [imap |-> [host |-> "mail.d", port |-> 993, secure |-> TRUE,
                         starttls |-> FALSE],
               smtp |-> [host |-> "mail.d", port |-> 587, secure |-> FALSE,
                         starttls |-> TRUE]]]

\* the fallback returned after both loops: mail.<domain> for both servers
FallbackResult ==
  [found |-> FALSE, source |-> "fallback",
   config |-> [imap |-> [host |-> "mail.d", port |-> 993, secure |-> TRUE,
                         starttls |-> FALSE],
               smtp |-> [host |-> "mail.d", port |-> 465, secure |-> TRUE,
                         starttls |-> FALSE]]]

\* a call of discoverMailConfig begins
DiscoverMailConfig ==
  /\ dpc = 0
  /\ dpc' = 1
  /\ contacted' = <<>>
  /\ dresult' = NoResult
  /\ UNCHANGED discOthers

\* one iteration of a loop: fetch the candidate, then return on success,
\* go to the next candidate otherwise; after the last one the fallback
TryCandidate(resp) ==
  /\ dpc \in 1..Len(Candidates)
  /\ resp \in Responses(Candidates[dpc].strategy)
  /\ LET c == Candidates[dpc] IN
     /\ contacted' = Append(contacted,
                            [url |-> c.url, method |-> c.method,
                             response |-> resp])
     /\ IF CandidateReturns(c, resp)
          THEN /\ dresult' = [found |-> TRUE, source |-> c.strategy,
                              config |-> ParsedConfig(c, resp)]
               /\ dpc' = 0
          ELSE IF dpc = Len(Candidates)
            THEN dresult' = FallbackResult /\ dpc' = 0
            ELSE dresult' = dresult /\ dpc' = dpc + 1
  /\ UNCHANGED discOthers

InitDiscover == InitLegacy

NextDiscover ==
  \/ DiscoverMailConfig
  \/ \E resp \in Responses("autoconfig") \cup Responses("autodiscover") :
       TryCandidate(resp)

SpecDiscover == InitDiscover /\ [][NextDiscover]_vars

(* ========================== SpecSecurity ============================ *)
(* The transport-security mode of one mailbox: parseAutoconfig, the login
   route's settings, upsertUser, authenticate, createImapService and the
   ImapService constructor, one after the other.                         *)

\* the <incomingServer> blocks discovery is answered with
SecurityBlocks ==
  {Block("mx.d", p, t) :
     p \in {"<missing>", "143", "993"},
     t \in {"<missing>", "SSL", "ssl", "STARTTLS", "plain"}}

\* imapSecurity of the login body: absent (""), or one of the zod enum
BodySecurities == {"", "SSL/TLS", "STARTTLS", "None"}
\* imapPort of the login body: absent (0) or a number
BodyPorts == {0, 143}

\* the login route choosing imapSecurity when the body gives no server
DiscoveredSecurity(server, bodySecurity) ==
  IF bodySecurity # "" THEN bodySecurity
  ELSE IF server.secure THEN "SSL/TLS"
  ELSE IF server.starttls THEN "STARTTLS"
  ELSE "None"

\* const imap = {host, port: imapPort || 993, security: imapSecurity ||
\* 'SSL/TLS', ...} of the login route
LoginImap(server, bodySecurity, bodyPort) ==
  LET imapPort == IF bodyPort # 0 THEN bodyPort ELSE server.port IN
  [host |-> server.host,
   port |-> IF imapPort # 0 THEN imapPort ELSE 993,
   security |-> DiscoveredSecurity(server, bodySecurity)]

\* new ImapService(config): this.config; security "" is an absent field
ImapServiceConfig(config) ==
  LET security == IF config.security # "" THEN config.security
                  ELSE "SSL/TLS"
      isSecure == security = "SSL/TLS"
      useStartTls == security = "STARTTLS" IN
  [host |-> config.host,
   port |-> IF config.port # 0 THEN config.port
            ELSE IF isSecure THEN 993 ELSE 143,
   secure |-> isSecure /\ ~useStartTls /\ security # "None",
   useStartTls |-> useStartTls,
   disableCompression |-> security = "None"]

\* createImapService(credentials): the object it builds carries host, port,
\* user, pass and `secure: credentials.secure`, and no `security`
createImapService(credentials) ==
  ImapServiceConfig([host |-> credentials.host, port |-> credentials.port,
                     security |-> ""])

\* POST /auth/login without imapServer: discovery answers with an
\* autoconfig document, the route derives its imap settings
SecLogin(b, bodySecurity, bodyPort) ==
  /\ sec.pc = "idle"
  /\ sec' = [sec EXCEPT
               !.pc = "settings", !.block = b,
               !.bodySecurity = bodySecurity, !.bodyPort = bodyPort,
               !.imap = LoginImap(parseAutoconfig([imap |-> b,
                                                   smtp |-> b]).imap,
                                  bodySecurity, bodyPort)]
  /\ UNCHANGED secOthers

\* the test connection succeeded; upsertUser stores imapHost, imapPort and
\* imap_security: imapSecurity || 'SSL/TLS'
SecStore ==
  /\ sec.pc = "settings"
  /\ sec' = [sec EXCEPT !.pc = "stored",
                        !.stored = [host |-> sec.imap.host,
                                    port |-> sec.imap.port,
                                    security |->
                                      IF sec.imap.security # ""
                                        THEN sec.imap.security
                                        ELSE "SSL/TLS"]]
  /\ UNCHANGED secOthers

\* a later request: authenticate builds req.user.imap from the stored user
\* and the route opens its connection with createImapService(req.user.imap)
SecConnect ==
  /\ sec.pc = "stored"
  /\ sec' = [sec EXCEPT !.pc = "connected",
                        !.conn = createImapService(
                                   [host |-> sec.stored.host,
                                    port |-> sec.stored.port,
                                    security |-> sec.stored.security])]
  /\ UNCHANGED secOthers

\* the next login
SecReset ==
  /\ sec.pc = "connected"
  /\ sec' = IdleSec
  /\ UNCHANGED secOthers

InitSecurity == InitLegacy

NextSecurity ==
  \/ \E b \in SecurityBlocks, s \in BodySecurities, p \in BodyPorts :
       SecLogin(b, s, p)
  \/ SecStore
  \/ SecConnect
  \/ SecReset

SpecSecurity == InitSecurity /\ [][NextSecurity]_vars

(* =========================== SpecFolders ============================ *)
(* ImapService folder resolution and the single-message mutations, on an   *)
(* IMAP account whose mailboxes appear over time.  A UID that names no     *)
(* message of the opened mailbox is ignored by the server without error    *)
(* (RFC 3501, UID command); opening a mailbox that does not exist fails.   *)

\* mailboxes an account can come to have (paths are unique on a server)
TrashBox == [name |-> "Trash", path |-> "Trash", specialUse |-> "\\Trash"]
Papierkorb ==
  [name |-> "Papierkorb", path |-> "Papierkorb", specialUse |-> "\\Trash"]
PlainTrash == [name |-> "Trash", path |-> "Trash", specialUse |-> ""]
Undeleted == [name |-> "Undeleted", path |-> "Undeleted", specialUse |-> ""]
BoxUniverse == {TrashBox, Papierkorb, PlainTrash, Undeleted}

\* folder names a request can carry
FolderInputs == {"INBOX", "trash", "Papierkorb", "Undeleted", "Gone"}

\* String.prototype.toLowerCase on the folder names, paths and tags above
lower(x) ==
  CASE x = "INBOX" -> "inbox" [] x = "Trash" -> "trash"
    [] x = "Papierkorb" -> "papierkorb" [] x = "Undeleted" -> "undeleted"
    [] x = "Gone" -> "gone" [] x = "Archive" -> "archive"
    [] x = "Spam" -> "spam" [] x = "\\Trash" -> "\\trash"
    [] x = "TRASH" -> "trash" [] x = "Sent" -> "sent"
    [] x = "Drafts" -> "drafts" [] x = "Junk" -> "junk"
    [] x = "Work" -> "work"
    [] OTHER -> x

\* String.prototype.includes on the lower-cased paths above
includes(x, part) ==
  \/ part = "trash" /\ x \in {"trash", "\\trash"}
  \/ part = "deleted" /\ x = "undeleted"

\* the keys _folderCache can hold
CacheKeys ==
  {"inbox", "trash", "papierkorb", "undeleted", "gone", "archive", "spam",
   "\\trash", "sent", "drafts", "junk", "all", "flagged", "important"}

\* SPECIAL_USE_MAP[name], "" where the name is no key of the map
SPECIAL_USE_MAP(name) ==
  CASE name = "sent" -> "\\Sent" [] name = "drafts" -> "\\Drafts"
    [] name = "trash" -> "\\Trash" [] name = "junk" -> "\\Junk"
    [] name = "spam" -> "\\Junk" [] name = "archive" -> "\\Archive"
    [] name = "all" -> "\\All" [] name = "flagged" -> "\\Flagged"
    [] name = "important" -> "\\Important" [] OTHER -> ""

\* the cache after the first n mailboxes of a listing were entered: every
\* mailbox writes its lower-cased name and path, its lower-cased tag and the
\* aliases of its tag, over whatever an earlier mailbox wrote there
RECURSIVE FolderCacheOf(_, _)
FolderCacheOf(mailboxes, n) ==
  IF n = 0 THEN [k \in CacheKeys |-> ""]
  ELSE LET box == mailboxes[n]
           prev == FolderCacheOf(mailboxes, n - 1)
       IN [k \in CacheKeys |->
             IF \/ k = lower(box.name)
                \/ k = lower(box.path)
                \/ box.specialUse # "" /\ k = lower(box.specialUse)
                \/ box.specialUse # "" /\ SPECIAL_USE_MAP(k) = box.specialUse
               THEN box.path ELSE prev[k]]

\* resolvedPath after the loop over the first n mailboxes: the path of the
\* last mailbox that matches by name, by path or by the alias of its tag
RECURSIVE ResolvedPath(_, _, _)
ResolvedPath(mailboxes, n, folder) ==
  IF n = 0 THEN ""
  ELSE LET box == mailboxes[n]
       IN IF \/ lower(box.name) = lower(folder)
             \/ lower(box.path) = lower(folder)
             \/ /\ box.specialUse # ""
                /\ SPECIAL_USE_MAP(lower(folder)) # ""
                /\ box.specialUse = SPECIAL_USE_MAP(lower(folder))
            THEN box.path
            ELSE ResolvedPath(mailboxes, n - 1, folder)

\* resolveFolderPath: the path it returns and the cache it leaves
resolveFolderPath(folder, c, mailboxes) ==
  IF lower(folder) = "inbox" THEN [path |-> "INBOX", cache |-> c]
  ELSE IF c.built /\ c.map[lower(folder)] # ""
    THEN [path |-> c.map[lower(folder)], cache |-> c]
  ELSE LET resolvedPath == ResolvedPath(mailboxes, Len(mailboxes), folder)
       IN [path |-> IF resolvedPath # "" THEN resolvedPath ELSE folder,
           cache |-> [built |-> TRUE,
                      map |-> FolderCacheOf(mailboxes, Len(mailboxes))]]

Paths(mailboxes) == {mailboxes[i].path : i \in 1..Len(mailboxes)}

\* client.mailboxOpen succeeds on the mailboxes the server has
mailboxOpen(path, mailboxes) == path \in Paths(mailboxes)

\* client.messageMove(uid, target) in the opened mailbox
messageMove(ms, opened, uid, target, mailboxes) ==
  IF ms[uid].loc = opened /\ target \in Paths(mailboxes)
    THEN [ms EXCEPT ![uid].loc = target] ELSE ms

\* client.messageDelete(uid) in the opened mailbox
messageDelete(ms, opened, uid) ==
  IF ms[uid].loc = opened THEN [ms EXCEPT ![uid].loc = "expunged"] ELSE ms

\* client.messageFlagsAdd / messageFlagsRemove(uid, [flag])
messageFlags(ms, opened, uid, flag, value) ==
  IF ms[uid].loc # opened THEN ms
  ELSE IF flag = "\\Seen" THEN [ms EXCEPT ![uid].seen = value]
  ELSE [ms EXCEPT ![uid].flagged = value]

\* mailboxes.find(box => box.specialUse === '\\Trash'): its index, 0 if none
trashBox(mailboxes) ==
  IF \E i \in 1..Len(mailboxes) : mailboxes[i].specialUse = "\\Trash"
    THEN CHOOSE i \in 1..Len(mailboxes) :
           /\ mailboxes[i].specialUse = "\\Trash"
           /\ \A j \in 1..(i - 1) : mailboxes[j].specialUse # "\\Trash"
    ELSE 0

\* deleteEmail: the messages it leaves and the cache it leaves; ok is FALSE
\* when the call throws
deleteEmail(ms, c, mailboxes, folder, uid, permanent) ==
  LET r == resolveFolderPath(folder, c, mailboxes)
      resolvedFolder == r.path
      isInTrash == \/ includes(lower(resolvedFolder), "trash")
                   \/ includes(lower(resolvedFolder), "deleted")
  IN IF ~mailboxOpen(resolvedFolder, mailboxes)
       THEN [ok |-> FALSE, msgs |-> ms, cache |-> r.cache]
     ELSE IF permanent \/ isInTrash
       THEN [ok |-> TRUE, msgs |-> messageDelete(ms, resolvedFolder, uid),
             cache |-> r.cache]
     ELSE IF trashBox(mailboxes) # 0
       THEN [ok |-> TRUE,
             msgs |-> messageMove(ms, resolvedFolder, uid,
                                  mailboxes[trashBox(mailboxes)].path,
                                  mailboxes),
             cache |-> r.cache]
     ELSE [ok |-> TRUE, msgs |-> messageDelete(ms, resolvedFolder, uid),
           cache |-> r.cache]

\* moveEmail: both names are resolved, the second against the cache the
\* first resolution left
moveEmail(ms, c, mailboxes, sourceFolder, uid, targetFolder) ==
  LET rs == resolveFolderPath(sourceFolder, c, mailboxes)
      rt == resolveFolderPath(targetFolder, rs.cache, mailboxes)
  IN IF ~mailboxOpen(rs.path, mailboxes)
       THEN [ok |-> FALSE, msgs |-> ms, cache |-> rt.cache]
       ELSE [ok |-> TRUE,
             msgs |-> messageMove(ms, rs.path, uid, rt.path, mailboxes),
             cache |-> rt.cache]

\* setReadStatus / setStarred
setFlag(ms, c, mailboxes, folder, uid, flag, value) ==
  LET r == resolveFolderPath(folder, c, mailboxes)
  IN IF ~mailboxOpen(r.path, mailboxes)
       THEN [ok |-> FALSE, msgs |-> ms, cache |-> r.cache]
       ELSE [ok |-> TRUE, msgs |-> messageFlags(ms, r.path, uid, flag, value),
             cache |-> r.cache]

\* a mailbox comes to exist on the server (created by the user's other
\* clients or by the provider)
MailboxAppears(b) ==
  /\ Len(boxes) < MaxBoxes
  /\ b.path \notin Paths(boxes)
  /\ boxes' = Append(boxes, b)
  /\ UNCHANGED <<msgs, cache, batch, mailOthers>>

\* a mailbox other than INBOX is deleted by another client of the account,
\* its messages with it
MailboxVanishes(i) ==
  /\ i \in 2..Len(boxes)
  /\ boxes' = SelectSeq(boxes, LAMBDA b : b.path # boxes[i].path)
  /\ msgs' = [m \in DOMAIN msgs |->
               IF msgs[m].loc = boxes[i].path
                 THEN [msgs[m] EXCEPT !.loc = "expunged"] ELSE msgs[m]]
  /\ UNCHANGED <<cache, batch, mailOthers>>

\* createImapService: every request works on a new ImapService
NewService ==
  /\ cache # NullCache
  /\ cache' = NullCache
  /\ UNCHANGED <<boxes, msgs, batch, mailOthers>>

\* getMailboxes
GetMailboxes ==
  /\ cache' = [built |-> TRUE, map |-> FolderCacheOf(boxes, Len(boxes))]
  /\ cache' # cache
  /\ UNCHANGED <<boxes, msgs, batch, mailOthers>>

\* setReadStatus(folder, uid, read)
SetReadStatus(folder, uid, read) ==
  LET o == setFlag(msgs, cache, boxes, folder, uid, "\\Seen", read)
  IN /\ msgs' = o.msgs
     /\ cache' = o.cache
     /\ UNCHANGED <<boxes, batch, mailOthers>>

\* setStarred(folder, uid, starred)
SetStarred(folder, uid, starred) ==
  LET o == setFlag(msgs, cache, boxes, folder, uid, "\\Flagged", starred)
  IN /\ msgs' = o.msgs
     /\ cache' = o.cache
     /\ UNCHANGED <<boxes, batch, mailOthers>>

\* moveEmail(sourceFolder, uid, targetFolder)
MoveEmail(sourceFolder, uid, targetFolder) ==
  LET o == moveEmail(msgs, cache, boxes, sourceFolder, uid, targetFolder)
  IN /\ msgs' = o.msgs
     /\ cache' = o.cache
     /\ UNCHANGED <<boxes, batch, mailOthers>>

\* deleteEmail(folder, uid, permanent)
DeleteEmail(folder, uid, permanent) ==
  LET o == deleteEmail(msgs, cache, boxes, folder, uid, permanent)
  IN /\ msgs' = o.msgs
     /\ cache' = o.cache
     /\ UNCHANGED <<boxes, batch, mailOthers>>

InitFolders == InitLegacy

NextFolders ==
  \/ \E b \in BoxUniverse : MailboxAppears(b)
  \/ \E i \in 1..MaxBoxes : MailboxVanishes(i)
  \/ NewService
  \/ GetMailboxes
  \/ \E f \in FolderInputs, m \in 1..MaxMsgs, v \in BOOLEAN :
       SetReadStatus(f, m, v)
  \/ \E f \in FolderInputs, m \in 1..MaxMsgs, v \in BOOLEAN :
       SetStarred(f, m, v)
  \/ \E f \in FolderInputs, m \in 1..MaxMsgs, t \in FolderInputs :
       MoveEmail(f, m, t)
  \/ \E f \in FolderInputs, m \in 1..MaxMsgs, p \in BOOLEAN :
       DeleteEmail(f, m, p)

SpecFolders == InitFolders /\ [][NextFolders]_vars

(* ============================ SpecBatch ============================= *)
(* The batch routes of /api/emails: one ImapService per request, one      *)
(* operation per item started by emails.map, all of them awaited with     *)
(* Promise.allSettled.  The operations run concurrently, so they settle   *)
(* in any order; archiveEmail and markAsSpam list the mailboxes in one    *)
(* step and create and fill the target mailbox in a later one.            *)

BatchKinds == {"read", "star", "move", "delete", "archive", "spam"}
BatchFolders == {"INBOX", "Gone"}
BatchTargets == {"trash"}
BatchItems == [folder : BatchFolders, uid : 1..MaxMsgs]
BatchLists == UNION {[1..n -> BatchItems] : n \in 1..MaxItems}

\* the mailbox archiveEmail / markAsSpam create when they find none
CreatedName(kind) == IF kind = "archive" THEN "Archive" ELSE "Spam"

\* mailboxes.find(...) of archiveEmail / markAsSpam: the path of the first
\* mailbox with the tag or one of the names, "" if there is none
targetBox(mailboxes, kind) ==
  LET tag == IF kind = "archive" THEN "\\Archive" ELSE "\\Junk"
      names == IF kind = "archive" THEN {"archive", "all mail", "all"}
               ELSE {"spam", "junk", "junk e-mail"}
      hit(i) == \/ mailboxes[i].specialUse = tag
                \/ lower(mailboxes[i].name) \in names
  IN IF \E i \in 1..Len(mailboxes) : hit(i)
       THEN mailboxes[CHOOSE i \in 1..Len(mailboxes) :
                        hit(i) /\ \A j \in 1..(i - 1) : ~hit(j)].path
       ELSE ""

\* the entries of the first n results that have the given status
RECURSIVE CountStatus(_, _, _)
CountStatus(results, n, status) ==
  IF n = 0 THEN 0
  ELSE CountStatus(results, n - 1, status)
         + (IF results[n] = status THEN 1 ELSE 0)

\* the results before the first rejected one (all of them if none is)
RECURSIVE UntilRejected(_, _)
UntilRejected(results, n) ==
  IF n = 0 THEN 0
  ELSE IF \E j \in 1..n : results[j] = "rejected"
    THEN UntilRejected(results, n - 1) ELSE n

\* a count that stops at the first rejection, as an await of Promise.all
\* would
filterUntilRejected(results, status) ==
  CountStatus(results, UntilRejected(results, Len(results)), status)

\* results.filter(r => r.status === status).length
filter(results, status) == CountStatus(results, Len(results), status)

\* the operation a batch of the four resolving kinds runs for one item
ItemOperation(b, item) ==
  CASE b.kind = "read" ->
         setFlag(msgs, cache, boxes, item.folder, item.uid, "\\Seen", b.flag)
    [] b.kind = "star" ->
         setFlag(msgs, cache, boxes, item.folder, item.uid, "\\Flagged",
                 b.flag)
    [] b.kind = "move" ->
         moveEmail(msgs, cache, boxes, item.folder, item.uid, b.target)
    [] OTHER ->
         deleteEmail(msgs, cache, boxes, item.folder, item.uid, b.flag)

\* the request is validated, a new ImapService is made and emails.map
\* starts one operation per item
BatchStart(kind, items, flag, target) ==
  /\ batch.pc = "idle"
  /\ kind = "move" <=> target # ""
  /\ kind \in {"move", "archive", "spam"} => ~flag
  /\ batch' = [pc |-> "running", kind |-> kind, items |-> items,
               flag |-> flag, target |-> target,
               settled |-> [i \in 1..Len(items) |-> "pending"],
               found |-> [i \in 1..Len(items) |-> ""],
               applied |-> [i \in 1..Len(items) |-> ""],
               status |-> 0, succeeded |-> 0, failed |-> 0]
  /\ cache' = NullCache
  /\ UNCHANGED <<boxes, msgs, mailOthers>>

\* an empty emails array is answered 400 before anything is started
BatchEmpty(kind) ==
  /\ batch.pc = "idle"
  /\ batch' = [IdleBatch EXCEPT !.pc = "answered", !.kind = kind,
                                !.status = 400]
  /\ UNCHANGED <<boxes, msgs, cache, mailOthers>>

\* the operation of item i cannot connect to the IMAP server
BatchConnectFails(i) ==
  /\ batch.pc = "running"
  /\ i \in 1..Len(batch.items)
  /\ batch.settled[i] = "pending"
  /\ batch' = [batch EXCEPT !.settled[i] = "rejected",
                            !.applied[i] = msgs[batch.items[i].uid].loc]
  /\ UNCHANGED <<boxes, msgs, cache, mailOthers>>

\* setReadStatus / setStarred / moveEmail / deleteEmail of item i run
BatchSettle(i) ==
  /\ batch.pc = "running"
  /\ batch.kind \in {"read", "star", "move", "delete"}
  /\ i \in 1..Len(batch.items)
  /\ batch.settled[i] = "pending"
  /\ LET o == ItemOperation(batch, batch.items[i])
     IN /\ msgs' = o.msgs
        /\ cache' = o.cache
        /\ batch' = [batch EXCEPT
                       !.settled[i] = IF o.ok THEN "fulfilled"
                                      ELSE "rejected",
                       !.applied[i] = o.msgs[batch.items[i].uid].loc]
  /\ UNCHANGED <<boxes, mailOthers>>

\* archiveEmail / markAsSpam of item i list the mailboxes
BatchList(i) ==
  /\ batch.pc = "running"
  /\ batch.kind \in {"archive", "spam"}
  /\ i \in 1..Len(batch.items)
  /\ batch.settled[i] = "pending"
  /\ batch' = [batch EXCEPT !.settled[i] = "listed",
                            !.found[i] = targetBox(boxes, batch.kind)]
  /\ UNCHANGED <<boxes, msgs, cache, mailOthers>>

\* archiveEmail / markAsSpam of item i create the mailbox when the listing
\* had none, open the folder as named and move the message; a mailboxCreate
\* of a mailbox another item created meanwhile is tolerated or fails
BatchMoveOut(i, tolerated) ==
  /\ batch.pc = "running"
  /\ i \in 1..Len(batch.items)
  /\ batch.settled[i] = "listed"
  /\ LET item == batch.items[i]
         name == CreatedName(batch.kind)
         create == batch.found[i] = ""
         exists == name \in Paths(boxes)
         createFails == create /\ exists /\ ~tolerated
         created == IF create /\ ~exists
                      THEN Append(boxes, [name |-> name, path |-> name,
                                          specialUse |-> ""])
                      ELSE boxes
         target == IF create THEN name ELSE batch.found[i]
         thrown == createFails \/ ~mailboxOpen(item.folder, created)
     IN /\ ~tolerated => create /\ exists
        /\ boxes' = IF createFails THEN boxes ELSE created
        /\ msgs' = IF thrown THEN msgs
                   ELSE messageMove(msgs, item.folder, item.uid, target,
                                    created)
        /\ batch' = [batch EXCEPT
                       !.settled[i] = IF thrown THEN "rejected"
                                      ELSE "fulfilled",
                       !.applied[i] = msgs'[item.uid].loc]
  /\ UNCHANGED <<cache, mailOthers>>

\* Promise.allSettled resolves once every operation settled; the route
\* counts the outcomes and answers
BatchAnswer ==
  /\ batch.pc = "running"
  /\ \A i \in 1..Len(batch.items) :
       batch.settled[i] \in {"fulfilled", "rejected"}
  /\ batch' = [batch EXCEPT
                 !.pc = "answered", !.status = 200,
                 !.succeeded = filter(batch.settled, "fulfilled"),
                 !.failed = filter(batch.settled, "rejected")]
  /\ UNCHANGED <<boxes, msgs, cache, mailOthers>>

InitBatch == InitLegacy

NextBatch ==
  \/ \E b \in {TrashBox} : MailboxAppears(b)
  \/ \E k \in BatchKinds, items \in BatchLists, f \in BOOLEAN,
        t \in BatchTargets \cup {""} : BatchStart(k, items, f, t)
  \/ \E k \in BatchKinds : BatchEmpty(k)
  \/ \E i \in 1..MaxItems : BatchConnectFails(i)
  \/ \E i \in 1..MaxItems : BatchSettle(i)
  \/ \E i \in 1..MaxItems : BatchList(i)
  \/ \E i \in 1..MaxItems, tolerated \in BOOLEAN : BatchMoveOut(i, tolerated)
  \/ BatchAnswer

SpecBatch == InitBatch /\ [][NextBatch]_vars

(* ============================= SpecSync ============================= *)
(* GET /api/emails/sync?uidNext=K against a mailbox that receives and     *)
(* loses messages.  UIDs are assigned in ascending order from UIDNEXT and *)
(* never reused.  In a UID range "a:*" the star is the highest UID in the *)
(* mailbox and the range covers the UIDs between its two ends in either   *)
(* order (RFC 3501, sequence-set).                                        *)

\* the largest element of a non-empty set of UIDs
MaxOf(S) == CHOOSE u \in S : \A v \in S : v <= u

\* client.fetch({uid: `${from}:*`}): the UIDs of the messages it yields
fetchFrom(uids, from) ==
  IF uids = {} THEN {}
  ELSE LET star == MaxOf(uids)
           lo == IF from <= star THEN from ELSE star
           hi == IF from <= star THEN star ELSE from
       IN {u \in uids : lo <= u /\ u <= hi}

\* checkNewMessages(folder, knownUidNext) on the mailbox as it is
checkNewMessages(box, knownUidNext) ==
  [uidNext |-> box.uidNext,
   hasNew |-> box.uidNext > knownUidNext,
   newCount |-> IF box.uidNext > knownUidNext
                  THEN box.uidNext - knownUidNext ELSE 0]

\* getNewMessages(folder, sinceUid): the UIDs of the emails it returns
getNewMessages(box, sinceUid) ==
  IF box.uids = {} \/ box.uidNext <= sinceUid + 1 THEN {}
  ELSE fetchFrom(box.uids, sinceUid + 1)

\* a message arrives
Deliver ==
  /\ inbox.uidNext <= MaxUid
  /\ inbox' = [uids |-> inbox.uids \cup {inbox.uidNext},
               uidNext |-> inbox.uidNext + 1]
  /\ UNCHANGED <<sync, syncOthers>>

\* a message is expunged by another client
Expunge(u) ==
  /\ u \in inbox.uids
  /\ inbox' = [inbox EXCEPT !.uids = @ \ {u}]
  /\ UNCHANGED <<sync, syncOthers>>

\* the route calls checkNewMessages and answers at once when hasNew is false
SyncCheck(knownUidNext) ==
  /\ sync.pc = "idle"
  /\ LET status == checkNewMessages(inbox, knownUidNext)
     IN sync' = [pc |-> IF status.hasNew THEN "fetch" ELSE "answered",
                 knownUidNext |-> knownUidNext,
                 uidNext |-> status.uidNext,
                 hasNew |-> status.hasNew,
                 newCount |-> status.newCount,
                 newEmails |-> {}]
  /\ UNCHANGED <<inbox, syncOthers>>

\* hasNew was true: the route calls getNewMessages with the same watermark
\* and answers {...status, newEmails}
SyncFetch ==
  /\ sync.pc = "fetch"
  /\ sync' = [sync EXCEPT !.pc = "answered",
                          !.newEmails =
                             getNewMessages(inbox, sync.knownUidNext)]
  /\ UNCHANGED <<inbox, syncOthers>>

\* the next poll
SyncReset ==
  /\ sync.pc = "answered"
  /\ sync' = IdleSync
  /\ UNCHANGED <<inbox, syncOthers>>

InitSync == InitLegacy

NextSync ==
  \/ Deliver
  \/ \E u \in 1..MaxUid : Expunge(u)
  \/ \E k \in 1..(MaxUid + 1) : SyncCheck(k)
  \/ SyncFetch
  \/ SyncReset

SpecSync == InitSync /\ [][NextSync]_vars

(* ============================ SpecThread ============================ *)
(* getThread on a folder that receives messages.  A subject is the        *)
(* sequence of its words; SEARCH SUBJECT matches the messages whose       *)
(* subject contains the searched text (RFC 3501, SEARCH).                 *)

Subjects ==
  {<<"Status">>, <<"Re:", "Status">>, <<"Re:", "Re:", "Status">>,
   <<"Other">>, <<"Status", "report">>}

\* the prefixes the regular expression names
ReplyPrefixes == {"Re:", "Fwd:", "Fw:"}

\* subject.replace(/^(Re|Fwd|Fw):\s*/gi, '').trim(): the expression is
\* anchored at the start of the string, so it removes one leading prefix
baseSubject(subject) ==
  IF Len(subject) > 0 /\ Head(subject) \in ReplyPrefixes
    THEN Tail(subject) ELSE subject

\* the searched text occurs in the subject
contains(subject, text) ==
  \E i \in 1..(Len(subject) - Len(text) + 1) :
    SubSeq(subject, i, i + Len(text) - 1) = text

\* client.search({ subject: text }): the messages that match
search(folder, text) ==
  {i \in 1..Len(folder) : contains(folder[i].subject, text)}

\* threadMessages.sort((a, b) => new Date(a.date) - new Date(b.date)) on the
\* messages fetched in ascending order; the sort is stable
RECURSIVE sortByDate(_, _)
sortByDate(folder, found) ==
  IF found = {} THEN <<>>
  ELSE LET first == CHOOSE i \in found : \A j \in found :
                      \/ folder[i].date < folder[j].date
                      \/ folder[i].date = folder[j].date /\ i <= j
       IN <<first>> \o sortByDate(folder, found \ {first})

\* getThread(folder, uid) for a message the folder has
getThread(folder, uid) ==
  LET text == baseSubject(folder[uid].subject)
      threadUids == IF text # <<>> THEN search(folder, text) ELSE {}
  IN [subject |-> text, thread |-> sortByDate(folder, threadUids)]

\* a message arrives in the folder
Arrive(subject, date) ==
  /\ Len(mail) < MaxMail
  /\ mail' = Append(mail, [subject |-> subject, date |-> date])
  /\ UNCHANGED <<thread, threadOthers>>

\* GET /:folder/:uid/thread; fetchOne of a message the folder does not have
\* makes the call throw 'Email not found'
GetThread(uid) ==
  /\ thread.pc = "idle"
  /\ thread' = IF uid \in 1..Len(mail)
                 THEN [pc |-> "answered", uid |-> uid,
                       subject |-> getThread(mail, uid).subject,
                       thread |-> getThread(mail, uid).thread]
                 ELSE [IdleThread EXCEPT !.pc = "failed", !.uid = uid]
  /\ UNCHANGED <<mail, threadOthers>>

\* the next request
ThreadReset ==
  /\ thread.pc # "idle"
  /\ thread' = IdleThread
  /\ UNCHANGED <<mail, threadOthers>>

InitThread == InitLegacy

NextThread ==
  \/ \E s \in Subjects, d \in 0..MaxDate : Arrive(s, d)
  \/ \E u \in 1..MaxMail : GetThread(u)
  \/ ThreadReset

SpecThread == InitThread /\ [][NextThread]_vars

(* ============================ SpecErrors ============================ *)
(* An authenticated mail route whose ImapService / SmtpService call       *)
(* rejects: the route's catch hands the error to next(), and the global   *)
(* errorHandler answers.  Nothing in the backend wraps or tags the errors *)
(* the mail libraries and the socket layer throw, so an error carries the *)
(* properties it was thrown with.                                         *)

\* the service calls of the mail routes and the protocol each one speaks
ImapOperations == {"getEmails", "getEmail", "moveEmail", "deleteEmail"}
SmtpOperations == {"sendEmail"}

\* the errors a failed connect, authentication or command can surface as:
\* the socket layer sets code on a failed connect, an SMTP login failure has
\* code EAUTH, the message of an authentication failure may or may not
\* contain the word, and only an IMAP error can carry source 'imap'
MailFailures ==
  {e \in [protocol : {"imap", "smtp"},
          phase : {"connect", "authenticate", "command"},
          name : {"Error"},
          code : {"ECONNREFUSED", "ETIMEDOUT", "EAUTH", ""},
          authentication : BOOLEAN,
          source : {"", "imap"}] :
     /\ e.phase = "connect" <=> e.code \in {"ECONNREFUSED", "ETIMEDOUT"}
     /\ e.code = "EAUTH" => e.phase = "authenticate"
     /\ e.authentication => e.phase = "authenticate"
     /\ e.source = "imap" => e.protocol = "imap"}

\* errorHandler: the status it answers for an error
errorHandler(err) ==
  IF err.name = "ValidationError" THEN 400
  ELSE IF err.name = "UnauthorizedError" THEN 401
  ELSE IF err.code = "ECONNREFUSED" THEN 503
  ELSE IF err.code = "EAUTH" \/ err.authentication THEN 401
  ELSE IF err.source = "imap" THEN 502
  ELSE 500

\* a mail route's service call rejects and the route calls next(error)
OperationFails(operation, err) ==
  /\ fault.pc = "idle"
  /\ err.protocol = (IF operation \in SmtpOperations THEN "smtp" ELSE "imap")
  /\ fault' = [pc |-> "thrown", operation |-> operation, err |-> err,
               status |-> 0]
  /\ UNCHANGED faultOthers

\* errorHandler answers
HandleError ==
  /\ fault.pc = "thrown"
  /\ fault' = [fault EXCEPT !.pc = "answered",
                            !.status = errorHandler(fault.err)]
  /\ UNCHANGED faultOthers

\* the next request
FaultReset ==
  /\ fault.pc = "answered"
  /\ fault' = IdleFault
  /\ UNCHANGED faultOthers

InitErrors == InitLegacy

NextErrors ==
  \/ \E o \in ImapOperations \cup SmtpOperations, e \in MailFailures :
       OperationFails(o, e)
  \/ HandleError
  \/ FaultReset

SpecErrors == InitErrors /\ [][NextErrors]_vars

(* ============================= SpecRate ============================= *)
(* The in-memory rateLimiter middleware, mounted before every route.      *)

Clients == {"ip1", "ip2"}

\* Math.ceil(a / b) for a >= 0
ceil(a, b) == (a + b - 1) \div b

\* the Map after the loop that deletes the entries whose window is over
Cleaned(map, t) ==
  [c \in Clients |->
     IF map[c].count > 0 /\ t - map[c].windowStart > WINDOW_MS
       THEN NoEntry ELSE map[c]]

\* rateLimiter(req, res, next) at time t for a client: the Map it leaves
\* and the status it answers (200 stands for next())
rateLimiter(map, t, clientId) ==
  LET cleaned == Cleaned(map, t)
      clientData == cleaned[clientId]
      fresh == [windowStart |-> t, count |-> 1]
      counted == [clientData EXCEPT !.count = @ + 1]
  IN IF clientData.count = 0
       THEN [map |-> [cleaned EXCEPT ![clientId] = fresh],
             status |-> 200, retryAfter |-> 0]
     ELSE IF t - clientData.windowStart > WINDOW_MS
       THEN [map |-> [cleaned EXCEPT ![clientId] = fresh],
             status |-> 200, retryAfter |-> 0]
     ELSE IF counted.count > MAX_REQUESTS
       THEN [map |-> [cleaned EXCEPT ![clientId] = counted],
             status |-> 429,
             retryAfter |->
               ceil(WINDOW_MS - (t - clientData.windowStart), 1000)]
     ELSE [map |-> [cleaned EXCEPT ![clientId] = counted],
           status |-> 200, retryAfter |-> 0]

\* time passes
ClockTick ==
  /\ clock + TickMs <= MaxClock
  /\ clock' = clock + TickMs
  /\ UNCHANGED <<requests, answer, rateOthers>>

\* a request of a client reaches the middleware
Request(clientId) ==
  /\ requests[clientId].count < MAX_REQUESTS + MaxOver
  /\ LET r == rateLimiter(requests, clock, clientId)
     IN /\ requests' = r.map
        /\ answer' = [client |-> clientId, at |-> clock,
                      status |-> r.status, retryAfter |-> r.retryAfter,
                      before |-> requests[clientId],
                      after |-> r.map[clientId]]
  /\ UNCHANGED <<clock, rateOthers>>

InitRate == InitLegacy

NextRate ==
  \/ ClockTick
  \/ \E c \in Clients : Request(c)

SpecRate == InitRate /\ [][NextRate]_vars

(* ========================== SpecFolderAdmin ========================= *)
(* POST /api/folders and DELETE /api/folders/:path against a server that  *)
(* compares mailbox names exactly (INBOX apart) and refuses to create a   *)
(* mailbox that exists or to delete one that does not.                    *)

\* paths a folder request can name
AdminPaths ==
  {"INBOX", "inbox", "Trash", "trash", "TRASH", "Sent", "Drafts", "Spam",
   "Junk", "Work"}

\* const systemFolders = ['INBOX', 'Sent', 'Drafts', 'Trash', 'Spam', 'Junk']
systemFolders == {"INBOX", "Sent", "Drafts", "Trash", "Spam", "Junk"}

\* a comparison that respects letter case
isSystemFolderExact(decodedPath) == decodedPath \in systemFolders

\* systemFolders.some(f => f.toLowerCase() === decodedPath.toLowerCase())
isSystemFolder(decodedPath) ==
  \E f \in systemFolders : lower(f) = lower(decodedPath)

\* client.mailboxDelete(path): the listing without the mailbox at that path
mailboxDelete(mailboxes, path) ==
  SelectSeq(mailboxes, LAMBDA b : b.path # path)

\* POST /api/folders {name}: createMailbox(name); creating a mailbox that
\* exists is tolerated or fails
CreateFolder(name, tolerated) ==
  /\ name \in Paths(boxes) \/ Len(boxes) < MaxBoxes
  /\ ~tolerated => name \in Paths(boxes)
  /\ lower(name) # "inbox"
  /\ boxes' = IF name \in Paths(boxes) THEN boxes
              ELSE Append(boxes, [name |-> name, path |-> name,
                                  specialUse |-> ""])
  /\ admin' = [route |-> "create", path |-> name,
               status |-> IF tolerated THEN 200 ELSE 500, called |-> TRUE]
  /\ UNCHANGED <<msgs, cache, batch, folderAdminOthers>>

\* DELETE /api/folders/:path
DeleteFolder(decodedPath) ==
  /\ IF isSystemFolder(decodedPath)
       THEN /\ admin' = [route |-> "delete", path |-> decodedPath,
                         status |-> 400, called |-> FALSE]
            /\ boxes' = boxes
       ELSE /\ admin' = [route |-> "delete", path |-> decodedPath,
                         status |-> IF decodedPath \in Paths(boxes)
                                      THEN 200 ELSE 500,
                         called |-> TRUE]
            /\ boxes' = mailboxDelete(boxes, decodedPath)
  /\ UNCHANGED <<msgs, cache, batch, folderAdminOthers>>

InitFolderAdmin == InitLegacy

NextFolderAdmin ==
  \/ \E n \in AdminPaths, t \in BOOLEAN : CreateFolder(n, t)
  \/ \E p \in AdminPaths : DeleteFolder(p)

SpecFolderAdmin == InitFolderAdmin /\ [][NextFolderAdmin]_vars

(* ============================= SpecCodec ============================ *)
(* encryptPassword / decryptPassword of the Encryption Service            *)
(* (encryption.js) and of the PocketBase service (pocketbase.js), on      *)
(* strings of small bytes.  AES-256-GCM is a keystream added to the       *)
(* plaintext byte by byte and a tag over key, nonce and ciphertext; a     *)
(* hex string is the sequence of the digits of its bytes.                 *)

Bytes == 0..MaxByte
Modulus == MaxByte + 1

\* the key pbkdf2Sync derives from the configured secret
EncryptionKey == 1

\* the non-empty passwords and the nonces crypto.randomBytes can draw
Plaintexts == UNION {[1..n -> Bytes] : n \in 1..MaxPlain}
Nonces == {<<b>> : b \in Bytes}

\* the keystream byte for position i under a key and a nonce
keystream(key, iv, i) == (key + 2 * iv[1] + i) % Modulus

\* cipher.update(plaintext) + cipher.final()
cipherText(key, iv, text) ==
  [i \in 1..Len(text) |-> (text[i] + keystream(key, iv, i)) % Modulus]

\* a decipher that runs the cipher a second time
plainTextAdded(key, iv, text) ==
  [i \in 1..Len(text) |-> (text[i] + keystream(key, iv, i)) % Modulus]

\* decipher.update(encrypted) + decipher.final() once the tag was accepted
plainText(key, iv, text) ==
  [i \in 1..Len(text) |->
     (text[i] + Modulus - keystream(key, iv, i)) % Modulus]

RECURSIVE sum(_, _)
sum(text, n) == IF n = 0 THEN 0 ELSE text[n] + sum(text, n - 1)

\* cipher.getAuthTag()
getAuthTag(key, iv, text) ==
  <<(key + iv[1] + 3 * sum(text, Len(text)) + Len(text)) % Modulus>>

\* buffer.toString('hex'): one digit per byte
HexDigits == <<"0", "1", "2", "3", "4", "5", "6", "7",
               "8", "9", "a", "b", "c", "d", "e", "f">>
HexDigit == [b \in Bytes |-> HexDigits[b + 1]]
toHex(bytes) == [i \in 1..Len(bytes) |-> HexDigit[bytes[i]]]

\* Buffer.from(hex, 'hex'): the bytes of the digits before the first
\* character that is no digit
RECURSIVE fromHexUpTo(_, _)
fromHexUpTo(hex, n) ==
  IF n = 0 THEN <<>>
  ELSE IF \E i \in 1..n : \A b \in Bytes : HexDigit[b] # hex[i]
    THEN fromHexUpTo(hex, n - 1)
    ELSE Append(fromHexUpTo(hex, n - 1),
                CHOOSE b \in Bytes : HexDigit[b] = hex[n])
fromHex(hex) == fromHexUpTo(hex, Len(hex))

\* `${iv}:${encrypted}:${authTag}`
join(fields) ==
  fields[1] \o <<":">> \o fields[2] \o <<":">> \o fields[3]

\* encrypted.split(':')
RECURSIVE split(_)
split(text) ==
  IF \A i \in 1..Len(text) : text[i] # ":" THEN <<text>>
  ELSE LET at == CHOOSE i \in 1..Len(text) :
                   text[i] = ":" /\ \A j \in 1..(i - 1) : text[j] # ":"
       IN <<SubSeq(text, 1, at - 1)>>
            \o split(SubSeq(text, at + 1, Len(text)))

\* encryptPassword(plaintext) with the nonce drawn (both modules alike)
encrypt(plaintext, iv) ==
  LET encrypted == cipherText(EncryptionKey, iv, plaintext)
  IN join(<<toHex(iv), toHex(encrypted),
            toHex(getAuthTag(EncryptionKey, iv, encrypted))>>)

\* what decryption of the three fields gives: createDecipheriv throws on an
\* empty nonce, decipher.final throws when the tag does not verify
decipher(ivHex, encryptedHex, authTagHex) ==
  LET iv == fromHex(ivHex)
      text == fromHex(encryptedHex)
  IN IF iv = <<>> THEN [ok |-> FALSE, value |-> <<>>]
     ELSE IF fromHex(authTagHex) # getAuthTag(EncryptionKey, iv, text)
       THEN [ok |-> FALSE, value |-> <<>>]
     ELSE [ok |-> TRUE, value |-> plainText(EncryptionKey, iv, text)]

\* decryptPassword of encryption.js
decryptChecked(encrypted) ==
  LET parts == split(encrypted)
  IN IF encrypted = <<>> THEN [ok |-> FALSE, value |-> <<>>]
     ELSE IF Len(parts) # 3 THEN [ok |-> FALSE, value |-> <<>>]
     ELSE decipher(parts[1], parts[2], parts[3])

\* decryptPassword of pocketbase.js: the first three fields are taken by
\* destructuring; Buffer.from(undefined, 'hex') throws when one is missing
decryptPocketBase(encrypted) ==
  LET parts == split(encrypted)
  IN IF encrypted = <<>> \/ Len(parts) < 3 THEN [ok |-> FALSE, value |-> <<>>]
     ELSE decipher(parts[1], parts[2], parts[3])

\* encryptPassword(plaintext)
Encrypt(plaintext, iv) ==
  /\ codec.pc = "idle"
  /\ codec' = [IdleCodec EXCEPT !.pc = "stored", !.plaintext = plaintext,
                                !.blob = encrypt(plaintext, iv)]
  /\ UNCHANGED codecOthers

\* the stored value gains a field (the column is written by something else)
GainField(field) ==
  /\ codec.pc = "stored"
  /\ Len(split(codec.blob)) <= 3
  /\ codec' = [codec EXCEPT !.blob = @ \o <<":">> \o field]
  /\ UNCHANGED codecOthers

\* the stored value loses its last field (the column is truncated)
LoseField ==
  /\ codec.pc = "stored"
  /\ Len(split(codec.blob)) > 1
  /\ codec' = [codec EXCEPT
                 !.blob = SubSeq(@, 1, Len(@) - 1
                                        - Len(split(@)[Len(split(@))]))]
  /\ UNCHANGED codecOthers

\* decryptPassword(encrypted) of one of the two modules
Decrypt(module) ==
  /\ codec.pc = "stored"
  /\ LET r == IF module = "encryption" THEN decryptChecked(codec.blob)
              ELSE decryptPocketBase(codec.blob)
     IN codec' = [codec EXCEPT !.pc = "decrypted", !.module = module,
                               !.ok = r.ok, !.decrypted = r.value]
  /\ UNCHANGED codecOthers

\* the next password
CodecReset ==
  /\ codec.pc = "decrypted"
  /\ codec' = IdleCodec
  /\ UNCHANGED codecOthers

InitCodec == InitLegacy

NextCodec ==
  \/ \E p \in Plaintexts, iv \in Nonces : Encrypt(p, iv)
  \/ \E f \in {<<"0">>, <<>>} : GainField(f)
  \/ LoseField
  \/ \E m \in {"encryption", "pocketbase"} : Decrypt(m)
  \/ CodecReset

SpecCodec == InitCodec /\ [][NextCodec]_vars

(* ============================= SpecConn ============================= *)
(* The connection handling every ImapService method shares (shown on      *)
(* setReadStatus): connect(), then resolveFolderPath(folder, client),     *)
(* mailboxOpen and the command inside try, client.logout() in finally.    *)
(* Calls of one request (a batch) and of different requests overlap.      *)

\* the positions at which a call holds a client
InFlight == {"resolve", "open", "command", "finally"}

\* a method whose try block has no finally: a failing step leaves at once
afterStepNoFinally(ok, next) == IF ok THEN next ELSE "returned"

\* try { ... } finally { await client.logout() }: where a step of the try
\* block hands control
afterStep(ok, next) == IF ok THEN next ELSE "finally"

\* connect(): new ImapFlow(config) and client.connect(); a rejected connect
\* leaves the method before its try block, with no connection
Connect(o, ok) ==
  /\ calls[o].pc = "idle"
  /\ made < MaxConn
  /\ IF ok
       THEN /\ made' = made + 1
            /\ conns' = conns \cup {made + 1}
            /\ calls' = [calls EXCEPT ![o] = [pc |-> "resolve",
                                              client |-> made + 1,
                                              threw |-> FALSE]]
       ELSE /\ calls' = [calls EXCEPT ![o] = [pc |-> "returned",
                                              client |-> 0, threw |-> TRUE]]
            /\ UNCHANGED <<conns, made>>
  /\ UNCHANGED connOthers

\* resolveFolderPath(folder, client): the caller's client is used and, on an
\* error of client.list(), not logged out here (needsDisconnect is false)
ResolveFolder(o, ok) ==
  /\ calls[o].pc = "resolve"
  /\ calls' = [calls EXCEPT ![o].pc = afterStep(ok, "open"),
                            ![o].threw = ~ok]
  /\ UNCHANGED <<conns, made, connOthers>>

\* client.mailboxOpen(resolvedFolder)
OpenMailbox(o, ok) ==
  /\ calls[o].pc = "open"
  /\ calls' = [calls EXCEPT ![o].pc = afterStep(ok, "command"),
                            ![o].threw = ~ok]
  /\ UNCHANGED <<conns, made, connOthers>>

\* the command of the method (messageFlagsAdd, messageMove, fetch, ...)
Command(o, ok) ==
  /\ calls[o].pc = "command"
  /\ calls' = [calls EXCEPT ![o].pc = afterStep(ok, "finally"),
                            ![o].threw = ~ok]
  /\ UNCHANGED <<conns, made, connOthers>>

\* finally: client.logout(); the connection is closed whether the LOGOUT
\* command is answered or the promise rejects
Finally(o, ok) ==
  /\ calls[o].pc = "finally"
  /\ conns' = conns \ {calls[o].client}
  /\ calls' = [calls EXCEPT ![o].pc = "returned",
                            ![o].threw = @ \/ ~ok]
  /\ UNCHANGED <<made, connOthers>>

\* the route has its answer; the slot takes the next call
Return(o) ==
  /\ calls[o].pc = "returned"
  /\ calls' = [calls EXCEPT ![o] = IdleCall]
  /\ UNCHANGED <<conns, made, connOthers>>

InitConn == InitLegacy

NextConn ==
  \/ \E o \in 1..MaxCalls, ok \in BOOLEAN : Connect(o, ok)
  \/ \E o \in 1..MaxCalls, ok \in BOOLEAN : ResolveFolder(o, ok)
  \/ \E o \in 1..MaxCalls, ok \in BOOLEAN : OpenMailbox(o, ok)
  \/ \E o \in 1..MaxCalls, ok \in BOOLEAN : Command(o, ok)
  \/ \E o \in 1..MaxCalls, ok \in BOOLEAN : Finally(o, ok)
  \/ \E o \in 1..MaxCalls : Return(o)

SpecConn == InitConn /\ [][NextConn]_vars

(* ============================= SpecPoll ============================= *)
(* syncEmails of the web client (authStore.js) polling GET /emails/sync:  *)
(* each poll sends the uidNext the previous answer carried, prepends the  *)
(* newEmails of the answer to its list and keeps the answer's uidNext.    *)

\* getMailboxStatus(folder): the answer of a poll that carries no uidNext
getMailboxStatus(box) ==
  [IdleSync EXCEPT !.pc = "answered", !.uidNext = box.uidNext]

\* syncEmails with syncStatus null: emailsApi.sync(folder, null), answered
\* by the route's else branch with the status alone
PollStatus ==
  /\ sync.pc = "idle"
  /\ store.uidNext = 0
  /\ sync' = getMailboxStatus(inbox)
  /\ UNCHANGED <<inbox, store, pollSyncOthers>>

\* syncEmails with a stored uidNext: the route's first await
PollCheck ==
  /\ store.uidNext # 0
  /\ SyncCheck(store.uidNext)

\* the list after `emails: [...result.newEmails, ...state.emails]`
prepend(emails, newEmails) ==
  [u \in DOMAIN emails |->
     IF u \in newEmails THEN emails[u] + 1 ELSE emails[u]]

\* the answer reaches syncEmails: new emails are prepended when hasNew and
\* the list is not empty, syncStatus takes the answer's uidNext
PollAnswer ==
  /\ sync.pc = "answered"
  /\ store' = [uidNext |-> sync.uidNext,
               first |-> IF store.first = 0 THEN sync.uidNext
                         ELSE store.first,
               emails |-> IF sync.hasNew /\ sync.newEmails # {}
                            THEN prepend(store.emails, sync.newEmails)
                            ELSE store.emails]
  /\ sync' = IdleSync
  /\ UNCHANGED <<inbox, pollSyncOthers>>

InitPoll == InitLegacy

NextPoll ==
  \/ Deliver
  \/ PollStatus
  \/ PollCheck
  \/ SyncFetch
  \/ PollAnswer

SpecPoll == InitPoll /\ [][NextPoll]_vars

(* ------------------ properties of the running backend --------------- *)

\* The three clauses of a valid session: (a) signature and expiry of the
\* token, (b) a Session row with the token's JTI that has not expired,
\* (c) the row's password epoch equals the owning User's current one.
Valid(t) ==
  /\ t.sig /\ now < t.exp
  /\ \E s \in sessions :
       /\ s.jti = t.jti
       /\ ~(now > s.exp)
       /\ \E u \in users : u.id = s.uid /\ u.pv = s.pv

\* authenticate (the middleware of the running backend) accepts a token
\* exactly when the three clauses hold.
AuthenticateIffValid ==
  \A t \in Presentable : (AuthReason(t) = "ok") <=> Valid(t)

\* C3: once a revocation has deleted the row of a JTI, a request carrying
\* that JTI's token is rejected in every later state, whatever logins,
\* sweeps and requests happen in between.
C3_RevokedNeverAccepted ==
  \A t \in Presentable : t.jti \in revoked => AuthReason(t) # "ok"

\* a revoked session whose token is still signed and unexpired, with a
\* session created by a later login in the store
C3_Witness ==
  \E t \in issued :
    /\ t.jti \in revoked /\ now < t.exp
    /\ \E s \in sessions : s.jti > t.jti
    /\ AuthReason(t) = "Invalid Session"

\* C4: the step of a login whose IMAP test connection failed answers 401
\* and leaves every User record, every Session row and the issued tokens as
\* they were (an answered request takes no further step).
C4_FailedTestChangesNothing ==
  [][\A r \in 1..MaxLogins :
       (req[r].pc = "idle" /\ req'[r].pc # "idle" /\ ~req'[r].imapOk)
         => /\ req'[r].pc = "done" /\ req'[r].status = 401
            /\ users' = users /\ sessions' = sessions /\ issued' = issued]_vars

\* a login for the address of a known user was answered 401
C4_Witness ==
  /\ users # {}
  /\ \E r \in 1..MaxLogins :
       req[r].pc = "done" /\ req[r].status = 401 /\ ~req[r].imapOk

\* C5: when a login is answered 200, a Session row with the token's JTI
\* exists whose password epoch is the user's current one (the token passes
\* authenticate).
C5_LoginTokenValid ==
  [][\A r \in 1..MaxLogins :
       (req[r].pc = "session" /\ req'[r].pc = "done")
         => \E s \in sessions' :
              /\ s.jti = NewJti
              /\ \E t \in issued' : t.jti = s.jti
              /\ \E u \in users' : u.id = s.uid /\ u.pv = s.pv]_vars

\* C6: the update of a known user by a login changes the password epoch
\* exactly when the supplied password differs from the stored one.
C6_EpochBumpedIffPasswordDiffers ==
  [][\A r \in 1..MaxLogins :
       (req[r].pc = "write" /\ req'[r].pc = "session"
          /\ req[r].existing # None)
         => \A u \in users : \A v \in users' :
              (u.id = req[r].existing.id /\ v.id = u.id)
                => ((v.pv # u.pv)
                      <=> (decryptPassword(u.pw) # req[r].password))]_vars

\* C7: a sweep that ends has deleted every row that had expired when it
\* started and no other row, and returns the number of rows it deleted; a
\* second sweep at the same time then lists nothing, returns 0 and changes
\* nothing.
C7_SweepDeletesExpiredAndCounts ==
  [][(sweep.pc = "delete" /\ sweep'.pc = "idle")
       => /\ ExpiredAt(sessions', sweep.now) = {}
          /\ (sessions \ sessions') \subseteq ExpiredAt(sessions, sweep.now)
          /\ CleanupReturn(sessions, sweep.listed)
               = Cardinality(sessions \ sessions')]_vars

\* C8: a revocation (logout, or DELETE /auth/sessions/:jti) removes at most
\* the row of its JTI; when that row is already gone it changes nothing;
\* after an accepted one the row is gone, so a second one changes nothing.
C8_RevokeIdempotent ==
  [][\A t \in Carried : \A j \in JtiInputs :
       (DeleteSession(t, j) \/ (j = t.jti /\ Logout(t)))
         => /\ sessions' \subseteq sessions
            /\ (sessions \ sessions') \subseteq {s \in sessions : s.jti = j}
            /\ (~RevokeFound(sessions, j) => sessions' = sessions)
            /\ (AuthReason(t) = "ok" => ~RevokeFound(sessions', j))
            /\ RevokeSessionByJti(sessions', j) = sessions']_vars

\* a JTI already revoked, another session of the same user still stored, and
\* a caller that authenticates: the revocation can be repeated
C8_Witness ==
  \E j \in revoked : \E t \in issued :
    /\ AuthReason(t) = "ok"
    /\ ~RevokeFound(sessions, j)
    /\ \E s \in sessions : s.jti # t.jti

\* C9: the store holds at most one User record per case-insensitive address.
C9_OneUserPerEmail ==
  \A u \in users : \A v \in users :
    toLowerCase(u.email) = toLowerCase(v.email) => u = v

(* --------------- properties of the knex session service ------------- *)

\* C1: the authentication step accepts a token exactly when (a) its
\* signature and expiry verify, (b) a Session row with its JTI exists and
\* has not expired, and (c) the row's password epoch equals the owning
\* User's current password epoch; stated of validateSession.
C1_ValidateIffValid ==
  \A t \in LegacyPresentable : (ValidateReason(t) = "valid") <=> Valid(t)

\* C2: a Session row whose password epoch differs from its User's current
\* password epoch is rejected by validateSession, whatever the token's
\* signature and expiry.
C2_StaleEpochRejected ==
  \A s \in sessions : \A u \in users :
    (u.id = s.uid /\ u.pv # s.pv)
      => \A t \in LegacyPresentable :
           t.jti = s.jti => ValidateReason(t) # "valid"

(* ------------------- properties of discoverMailConfig ---------------- *)

\* a 2xx document names a host when the element is there and not blank
NamesHost(x) == x.block /\ x.hostname # "<missing>" /\ x.hostname # " "

\* the success conditions of the two strategies, on the response itself
Exposes(strategy, resp) ==
  /\ resp.status = "ok"
  /\ IF strategy = "autoconfig"
       THEN NamesHost(resp.imap) /\ NamesHost(resp.smtp)
       ELSE NamesHost(resp.imap) \/ NamesHost(resp.smtp)

\* C10: the requests made are the candidates in their fixed order (three
\* autoconfig GETs, then three autodiscover POSTs) with none skipped; every
\* candidate contacted before the last one failed; when the call has
\* returned with found = true, the last candidate contacted succeeded,
\* source names its strategy and the config holds its hosts; when it has
\* returned the fallback, all six were contacted and all failed.
C10_FirstSuccessInOrder ==
  /\ Len(contacted) <= Len(Candidates)
  /\ \A i \in 1..Len(contacted) :
       /\ contacted[i].url = Candidates[i].url
       /\ contacted[i].method = (IF i <= 3 THEN "GET" ELSE "POST")
       /\ i < Len(contacted)
            => ~Exposes(Candidates[i].strategy, contacted[i].response)
  /\ (dpc # 0) => dpc = Len(contacted) + 1 /\ dresult = NoResult
  /\ (dpc = 0 /\ dresult # NoResult) =>
       /\ Len(contacted) >= 1
       /\ LET n == Len(contacted)
              last == contacted[n].response IN
          IF Exposes(Candidates[n].strategy, last)
            THEN /\ dresult.found
                 /\ dresult.source = (IF n <= 3 THEN "autoconfig"
                                      ELSE "autodiscover")
                 /\ dresult.config.imap.host =
                      (IF NamesHost(last.imap) THEN last.imap.hostname
                       ELSE "")
                 /\ dresult.config.smtp.host =
                      (IF NamesHost(last.smtp) THEN last.smtp.hostname
                       ELSE "")
            ELSE /\ n = Len(Candidates)
                 /\ ~dresult.found /\ dresult.source = "fallback"

\* the call returned the settings of the second autodiscover candidate,
\* which names only an SMTP host, after an autoconfig candidate answered
\* 2xx with an IMAP host alone
C10_Witness ==
  /\ dpc = 0 /\ dresult.found /\ dresult.source = "autodiscover"
  /\ Len(contacted) = 5
  /\ ~contacted[5].response.imap.block
  /\ \E i \in 1..3 : /\ contacted[i].response.status = "ok"
                     /\ contacted[i].response.imap.hostname = "mx.d"

\* a response that does not make its candidate's loop return: a rejection
\* or abort, a non-2xx answer, or a document lacking the hosts asked for
Unusable(strategy, resp) == ~Exposes(strategy, resp)

\* C11: whatever the candidates answer, the call moves on by one candidate
\* per request and never beyond the sixth, no URL is requested twice, and
\* when every candidate has failed it has returned found = false, source
\* 'fallback', host mail.<domain> for IMAP and SMTP, ports 993 and 465,
\* both implicit TLS.
C11_FallbackAfterSixFailures ==
  /\ dpc \in 0..Len(Candidates)
  /\ Len(contacted) <= Len(Candidates)
  /\ \A i \in 1..Len(contacted) : \A j \in 1..Len(contacted) :
       contacted[i].url = contacted[j].url => i = j
  /\ (/\ Len(contacted) = Len(Candidates)
      /\ \A i \in 1..Len(contacted) :
           Unusable(Candidates[i].strategy, contacted[i].response))
       => /\ dpc = 0
          /\ ~dresult.found /\ dresult.source = "fallback"
          /\ dresult.config.imap.host = "mail.d"
          /\ dresult.config.smtp.host = "mail.d"
          /\ dresult.config.imap.port = 993
          /\ dresult.config.smtp.port = 465
          /\ dresult.config.imap.secure /\ ~dresult.config.imap.starttls
          /\ dresult.config.smtp.secure /\ ~dresult.config.smtp.starttls

\* all six candidates were requested and failed, among them a rejection, a
\* non-2xx answer and a 2xx document without the hosts; the call returned
C11_Witness ==
  /\ dpc = 0 /\ Len(contacted) = 6
  /\ dresult.source = "fallback"
  /\ \E i \in 1..6 : contacted[i].response.status = "error"
  /\ \E i \in 1..6 : contacted[i].response.status = "non2xx"
  /\ \E i \in 1..3 : /\ contacted[i].response.status = "ok"
                     /\ NamesHost(contacted[i].response.imap)
  /\ \E i \in 4..6 : contacted[i].response.status = "ok"

(* ----------------- properties of the transport security -------------- *)

\* the mode a socketType text stands for
InferredMode(socketType) ==
  IF socketType \in {"SSL", "ssl"} THEN "SSL/TLS"
  ELSE IF socketType \in {"STARTTLS", "starttls"} THEN "STARTTLS"
  ELSE "None"

\* C12: for a login that leaves the security to discovery, the stored mode
\* is the one the document's socketType stands for, and the connection
\* opened for the user has implicit TLS exactly when that mode is SSL/TLS
\* and the STARTTLS upgrade exactly when it is STARTTLS.
C12_SecurityModePreserved ==
  (sec.pc = "connected" /\ sec.bodySecurity = "")
    => /\ sec.stored.security = InferredMode(sec.block.socketType)
       /\ sec.conn.secure <=> (sec.stored.security = "SSL/TLS")
       /\ sec.conn.useStartTls <=> (sec.stored.security = "STARTTLS")

(* -------------------- properties of the ImapService ------------------ *)

\* display names a trash mailbox conventionally has
ConventionalTrashNames ==
  {"trash", "deleted", "deleted items", "deleted messages"}

\* the Trash mailbox: tagged \Trash, or conventionally named
IsTrashMailbox(b) ==
  b.specialUse = "\\Trash" \/ lower(b.name) \in ConventionalTrashNames

\* the mailboxes of a listing that have the given path
BoxesAt(mailboxes, path) ==
  {mailboxes[i] : i \in {j \in 1..Len(mailboxes) : mailboxes[j].path = path}}

\* the message is in the folder the request names
InFolder(uid, folder) ==
  msgs[uid].loc = resolveFolderPath(folder, cache, boxes).path

\* the folder the request names is the Trash mailbox
NamesTrash(folder) ==
  \E b \in BoxesAt(boxes, resolveFolderPath(folder, cache, boxes).path) :
    IsTrashMailbox(b)

\* C13: a non-permanent deleteEmail on a message in a folder that is not the
\* Trash mailbox leaves the message in a Trash mailbox (tagged \Trash or
\* conventionally named), which exists afterwards even when none existed
\* before; the message is never expunged by such a call.
C13_SoftDeleteMovesToTrash ==
  [][\A f \in FolderInputs, m \in 1..MaxMsgs :
       (DeleteEmail(f, m, FALSE) /\ InFolder(m, f) /\ ~NamesTrash(f))
         => \E b \in BoxesAt(boxes', msgs'[m].loc) : IsTrashMailbox(b)]_vars

\* C14: deleteEmail expunges the message if and only if the permanent flag
\* is set or the folder the message is in is the Trash mailbox.
C14_HardDeleteIffPermanentOrTrash ==
  [][\A f \in FolderInputs, m \in 1..MaxMsgs, p \in BOOLEAN :
       (DeleteEmail(f, m, p) /\ InFolder(m, f))
         => (msgs'[m].loc = "expunged" <=> (p \/ NamesTrash(f)))]_vars

\* the mailboxes of the current listing that carry the \Trash tag
Tagged == {i \in 1..Len(boxes) : boxes[i].specialUse = "\\Trash"}

\* C15: when exactly one mailbox of the listing carries the \Trash tag,
\* resolveFolderPath("trash") is that mailbox's path, from the cache as from
\* a fresh listing, whatever the other mailboxes are and in whatever order.
C15_TrashResolvesToTaggedMailbox ==
  Cardinality(Tagged) = 1 =>
    \A i \in Tagged :
      /\ resolveFolderPath("trash", cache, boxes).path = boxes[i].path
      /\ resolveFolderPath("trash", NullCache, boxes).path = boxes[i].path

(* --------------------- properties of the batch routes ---------------- *)

\* the items of the batch that name the same message as item i
SameMessage(i) ==
  {j \in 1..Len(batch.items) : batch.items[j].uid = batch.items[i].uid}

\* C16: a batch answered with counts has started and settled one operation
\* per item; succeeded + failed is the number of items and succeeded is the
\* number of fulfilled operations; what an item's operation did to its
\* message is still in place when the answer is sent, whatever happened to
\* the other items, and a fulfilled delete of a message in INBOX has taken
\* it out of INBOX.
C16_BatchCountsEveryItem ==
  (batch.pc = "answered" /\ batch.status = 200) =>
    LET n == Len(batch.items)
    IN /\ n > 0
       /\ Len(batch.settled) = n
       /\ \A i \in 1..n : batch.settled[i] \in {"fulfilled", "rejected"}
       /\ batch.succeeded + batch.failed = n
       /\ batch.succeeded =
            Cardinality({i \in 1..n : batch.settled[i] = "fulfilled"})
       /\ \A i \in 1..n :
            SameMessage(i) = {i} =>
              msgs[batch.items[i].uid].loc = batch.applied[i]
       /\ \A i \in 1..n :
            (/\ batch.kind = "delete"
             /\ batch.settled[i] = "fulfilled"
             /\ batch.items[i].folder = "INBOX")
              => msgs[batch.items[i].uid].loc # "INBOX"

\* a batch delete of two messages whose first item names a folder that does
\* not exist: answered succeeded 1, failed 1, the second message is gone
\* from INBOX
C16_Witness ==
  /\ batch.pc = "answered"
  /\ batch.kind = "delete"
  /\ Len(batch.items) = 2
  /\ batch.items[1].folder = "Gone"
  /\ batch.items[2].folder = "INBOX"
  /\ batch.items[1].uid # batch.items[2].uid
  /\ batch.settled = <<"rejected", "fulfilled">>
  /\ batch.succeeded = 1
  /\ batch.failed = 1
  /\ msgs[batch.items[1].uid].loc = "INBOX"
  /\ msgs[batch.items[2].uid].loc \in {"Trash", "expunged"}

(* ---------------------- properties of the sync route ----------------- *)

\* C17: a poll with watermark K answers hasNew exactly when the mailbox's
\* UIDNEXT N at the status check exceeded K; it then returns every message
\* of the mailbox with K <= UID < N and no message with a UID below K, and
\* when N did not exceed K it returns no message.
C17_PollReturnsRangeFromWatermark ==
  sync.pc = "answered" =>
    /\ sync.hasNew <=> sync.uidNext > sync.knownUidNext
    /\ sync.hasNew =>
         /\ \A u \in inbox.uids :
              (sync.knownUidNext <= u /\ u < sync.uidNext)
                => u \in sync.newEmails
         /\ \A u \in sync.newEmails : u >= sync.knownUidNext
    /\ ~sync.hasNew => sync.newEmails = {}

(* ------------------------ properties of getThread -------------------- *)

\* a subject with all its leading reply/forward prefixes removed
RECURSIVE Stripped(_)
Stripped(subject) ==
  IF Len(subject) > 0 /\ Head(subject) \in ReplyPrefixes
    THEN Stripped(Tail(subject)) ELSE subject

\* the messages of the returned thread
ThreadMembers == {thread.thread[i] : i \in 1..Len(thread.thread)}

\* C18: the thread returned for a message holds exactly the messages of the
\* folder whose subject, stripped of its reply/forward prefixes, equals the
\* stripped subject of the message asked for, each once, in ascending order
\* of date.
C18_ThreadIsSameBaseSubjectByDate ==
  thread.pc = "answered" =>
    /\ ThreadMembers =
         {i \in 1..Len(mail) :
            Stripped(mail[i].subject) = Stripped(mail[thread.uid].subject)}
    /\ Len(thread.thread) = Cardinality(ThreadMembers)
    /\ \A i, j \in 1..Len(thread.thread) :
         i < j => mail[thread.thread[i]].date <= mail[thread.thread[j]].date

(* ----------------------- properties of errorHandler ------------------ *)

\* C19: a failed connect, authentication or command of a mail operation is
\* answered 503 when the connection was refused and 502 otherwise, so never
\* 500 and never 401.
C19_MailFailureIs502Or503 ==
  fault.pc = "answered" =>
    fault.status = (IF fault.err.code = "ECONNREFUSED" THEN 503 ELSE 502)

(* ----------------------- properties of rateLimiter ------------------- *)

\* C20: a client's request is admitted while fewer than MAX_REQUESTS were
\* counted in its window; a request inside the window (up to and including
\* WINDOW_MS after the window start) beyond that is answered 429 with a
\* retry-after of the whole seconds left in the window, at least 1; the
\* first request after the window is admitted and starts a window with
\* count 1.
C20_WindowAdmitsAtMostMaxRequests ==
  answer.status # 0 =>
    LET elapsed == answer.at - answer.before.windowStart
        inside == answer.before.count > 0 /\ elapsed <= WINDOW_MS
    IN /\ (inside /\ answer.before.count < MAX_REQUESTS)
            => /\ answer.status = 200
               /\ answer.after =
                    [answer.before EXCEPT !.count = @ + 1]
       /\ (inside /\ answer.before.count >= MAX_REQUESTS)
            => /\ answer.status = 429
               /\ answer.retryAfter = ceil(WINDOW_MS - elapsed, 1000)
               /\ answer.retryAfter >= 1
       /\ ~inside
            => /\ answer.status = 200
               /\ answer.after = [windowStart |-> answer.at, count |-> 1]

(* --------------------- properties of the folder routes --------------- *)

\* the path is INBOX, Sent, Drafts, Trash, Spam or Junk in some letter case
NamesSystemFolder(path) ==
  lower(path) \in {"inbox", "sent", "drafts", "trash", "spam", "junk"}

\* C21: a DELETE /folders request whose path equals a system folder name,
\* letter case ignored, is answered 400 without a call to the mail server,
\* and no step of the folder routes takes a mailbox with such a path out of
\* the mailbox list.
C21_SystemFoldersNeverDeleted ==
  [][/\ \A i \in 1..Len(boxes) :
          NamesSystemFolder(boxes[i].path) => boxes[i].path \in Paths(boxes')
     /\ (admin'.route = "delete" /\ NamesSystemFolder(admin'.path))
          => admin'.status = 400 /\ ~admin'.called]_vars

\* DELETE /folders/trash was answered 400 on an account that has a mailbox
\* at the path "trash"
C21_Witness ==
  /\ admin.route = "delete"
  /\ admin.path = "trash"
  /\ admin.status = 400
  /\ "trash" \in Paths(boxes)

(* -------------------- properties of the credential codec ------------- *)

\* the blobs encryptPassword can produce for a plaintext
Encryptions(plaintext) == {encrypt(plaintext, iv) : iv \in Nonces}

C23_MalformedBlobRejected ==
  (codec.pc = "decrypted" /\ Len(split(codec.blob)) # 3) => ~codec.ok

(* ------------------------- the password epoch ------------------------ *)

\* C24: no step of the backend lowers a user's password_version, and every
\* step that changes a user's stored password raises it.
C24_EpochNeverDecreases ==
  [][\A u \in users : \A v \in users' :
       v.id = u.id =>
         /\ v.pv >= u.pv
         /\ (decryptPassword(v.pw) # decryptPassword(u.pw) => v.pv > u.pv)]_vars

(* ----------------------- the folder cache and the listing ------------ *)

\* C25: whatever happened to the mailboxes since the cache was filled,
\* resolveFolderPath gives for every name the path that a resolution
\* against a fresh listing gives.
C25_ResolutionIndependentOfCache ==
  \A folder \in FolderInputs :
    resolveFolderPath(folder, cache, boxes).path
      = resolveFolderPath(folder, NullCache, boxes).path

\* resolveFolderPath on the current listing, from the given cache
Resolved(folder, c) == resolveFolderPath(folder, c, boxes).path

\* C30: on the current listing, with the service's cache as with a fresh
\* listing, resolving a resolved path gives the same path again, and the
\* path of every existing mailbox resolves to itself.
C30_ResolutionIdempotentAndFixesPaths ==
  \A c \in {cache, NullCache} :
    /\ \A x \in FolderInputs \cup Paths(boxes) :
         Resolved(Resolved(x, c), resolveFolderPath(x, c, boxes).cache)
           = Resolved(x, c)
    /\ \A p \in Paths(boxes) : Resolved(p, c) = p

(* ------------------------ connections per operation ------------------ *)

\* the calls that are between their connect() and the end of their finally
Running == {o \in 1..MaxCalls : calls[o].pc \in InFlight}

C27_DeleteSessionOnlyOwn ==
  [][\A t \in Carried, jti \in JtiInputs :
       DeleteSession(t, jti) =>
         \A s \in sessions : s.uid # t.sub => s \in sessions']_vars

(* ---------------------------- chained polls -------------------------- *)

\* C28: no message is reported as new by two polls, and once a poll has
\* brought the client's watermark up to the mailbox's UIDNEXT every message
\* delivered since the first watermark has been reported by one.
C28_EveryMessageReportedOnce ==
  /\ \A u \in 1..MaxUid : store.emails[u] <= 1
  /\ (sync.pc = "idle" /\ store.first # 0 /\ store.uidNext = inbox.uidNext)
       => \A u \in inbox.uids : u >= store.first => store.emails[u] = 1

(* -------------------- concurrent archive and spam items -------------- *)

\* C29: in a batch archive or batch spam request, an item that listed no
\* target mailbox and whose message is in the folder it names ends
\* fulfilled with its message in the created mailbox, whatever the other
\* items of the batch did between its listing and its create and move.
C29_ConcurrentItemsAllSucceed ==
  [][\A i \in 1..MaxItems, tolerated \in BOOLEAN :
       (/\ BatchMoveOut(i, tolerated)
        /\ batch.found[i] = ""
        /\ msgs[batch.items[i].uid].loc = batch.items[i].folder)
         => /\ batch'.settled[i] = "fulfilled"
            /\ msgs'[batch.items[i].uid].loc = CreatedName(batch.kind)
            /\ CreatedName(batch.kind) \in Paths(boxes')]_vars

=============================================================================
